---- MODULE Spec2Model ----
(***************************************************************************)
(* Storage engine core of BD2-Restructuracion: the fixed-record heap file  *)
(* (core/file_manager.py), the B+ tree (bplus.py), the ISAM index          *)
(* (isam.py), the sequential file (indexes/sequential_file.py) and the     *)
(* DatabaseManager (core/databasemanager.py) that binds them.              *)
(*                                                                         *)
(* Slots are 0-based as in the source; TLA+ sequences are 1-based, so slot *)
(* p of a file is element p+1 of the sequence that models the file.        *)
(* A Python None that stands for "no slot" is the integer None (-1); an    *)
(* optional record is a sequence of length 0 (None) or 1.                  *)
(* A list built element by element is written <<>> \o [i \in 1..n |-> e],  *)
(* so that TLC holds it as a tuple like every other list.                  *)
(***************************************************************************)
EXTENDS Integers, Sequences, FiniteSets, TLC

VARIABLES
    fm,         \* FileManager: data file, header file, free_list_head, file_size
    fmLog,      \* history of the FileManager calls made so far, with their results
    fmLive,     \* slots returned by add_record and not passed to remove_record since
    tree,       \* BPlusTree: order, root and the node objects (keys, children, next)
    treeMap,    \* for each key, the slot of its latest insert/update, None once deleted
    db,         \* DatabaseManager: index_type, file_manager, index, and the index file
    calls,      \* how many DatabaseManager calls have been made on the table's files
    dbOp,       \* the latest DatabaseManager call and what it returned
    stored,     \* for each key, the payload last added/updated under it, None once removed
    eh,         \* ExtendibleHashing: D, bucketSize, directory and the bucket objects
    ehMap,      \* while ehPlain: for each key, the value inserted, None once deleted
    ehPlain,    \* only inserts of keys not stored, and deletes, have been made so far
    isam,       \* ISAMIndex on its own: idx_l1, idx_l2, idx_l3 and overflow
    isamPositions, \* for each key, the positions inserted and not yet removed by delete, oldest first
    isamPromoted,  \* the keys whose base position was promoted from overflow by delete
    seq,        \* SequentialIndex on its own: main file, aux file, aux_records_count
    seqLatest,  \* for each key, the value of the record inserted last (None: none, or removed since)
    seqInserts, \* for each key, how often it was inserted, counted up to 2
    seqRebuilt, \* the last call ran _rebuild
    rt,         \* RTree on its own: root, max_children, and whether a call raised
    rtStored,   \* for each leaf entry, how often it was inserted since the last delete of its payload
    table       \* Table: fields, and record_size and format_string once __init__ has run

fmVars == <<fm, fmLog, fmLive>>

treeVars == <<tree, treeMap>>

dbVars == <<db, calls, dbOp, stored>>

ehVars == <<eh, ehMap, ehPlain>>

\* the variables of the indexes that are modelled on their own
isamVars == <<isam, isamPositions, isamPromoted>>

seqVars == <<seq, seqLatest, seqInserts, seqRebuilt>>

rtVars == <<rt, rtStored>>

tableVars == <<table>>

indexVars == <<ehVars, isamVars, seqVars, rtVars, tableVars>>

vars == <<fm, fmLog, fmLive, tree, treeMap, db, calls, dbOp, stored, eh, ehMap, ehPlain,
         isam, isamPositions, isamPromoted, seq, seqLatest, seqInserts, seqRebuilt,
         rt, rtStored, table>>

-----------------------------------------------------------------------------
(* Bounds *)

MaxOps == 6        \* FileManager calls recorded in fmLog
MaxKey == 2        \* keys of the records given to the DatabaseManager are 1..MaxKey
MaxRecords == 2    \* records a table's files hold (heap slots, or main + aux records)
MaxCalls == 8      \* DatabaseManager calls (constructor included) made on a table's files
MaxVal == 2        \* non-key payloads are 1..MaxVal
MaxOrder == 3      \* B+ tree orders are 2..MaxOrder
MaxTreeKey == 5    \* keys given to the B+ tree on its own are 1..MaxTreeKey
MaxDeepKey == 11   \* keys given to the B+ tree of order MaxOrder alone are 1..MaxDeepKey
MaxMergeRecords == 3 \* records the two files hold when the merge of a rebuild is examined
MaxBucketSize == 2 \* bucket sizes of the extendible hash are 1..MaxBucketSize
MaxHashKey == 2    \* keys given to the extendible hash are -2..MaxHashKey
MaxEntries == 4    \* records the extendible hash holds
MaxDepth == 4      \* memory holds a directory of at most 2^MaxDepth slots
MaxChildren == 4   \* the R-tree's max_children is 2..MaxChildren
MaxCoord == 1      \* the points given to the R-tree have coordinates 0..MaxCoord
MaxPayload == 2    \* the payloads given to the R-tree are 1..MaxPayload
MaxRTEntries == 5  \* leaf entries the R-tree holds
MaxNeighbours == 2 \* the k of a nearest-neighbour query is 1..MaxNeighbours
MaxFields == 3     \* a table schema has 1..MaxFields fields
MaxStrSize == 5    \* a str field has size 1..MaxStrSize

Keys == 1..MaxKey
Vals == 1..MaxVal

None == -1

-----------------------------------------------------------------------------
(* Generic helpers for Python list operations *)

Last(s) == s[Len(s)]

\* list.insert(i, x) with a 0-based index i in 0..len
ListInsert(s, i, x) == SubSeq(s, 1, i) \o <<x>> \o SubSeq(s, i + 1, Len(s))

\* list.pop(i) with a 0-based index: the list without element i
ListDel(s, i) == SubSeq(s, 1, i) \o SubSeq(s, i + 2, Len(s))

SetMin(S) == CHOOSE x \in S : \A y \in S : x <= y

SeqToSet(s) == {s[i] : i \in 1..Len(s)}

-----------------------------------------------------------------------------
(* core/models.py: a record is its values (key field and payload) plus next *)

Record(key, val) == [key |-> key, val |-> val, next |-> 0]

Records == {Record(k, v) : k \in Keys, v \in Vals}

\* what a read finds in a hole left by a write past the end of the file
ZeroRecord == [key |-> 0, val |-> 0, next |-> 0]

-----------------------------------------------------------------------------
(* core/file_manager.py *)

\* FileManager.__init__ / _initialize_files on files that do not exist yet
NewFileManager == [data |-> <<>>, header |-> -1, free_list_head |-> -1, file_size |-> 0]

\* FileManager.__init__ / _initialize_files on the files a previous manager left
OpenFileManager(f) ==
    [data |-> f.data, header |-> f.header,
     free_list_head |-> f.header, file_size |-> Len(f.data)]

\* read_record: None (<<>>) on a short read or a failed seek
read_record(f, pos) ==
    IF pos >= 0 /\ pos < Len(f.data) THEN <<f.data[pos + 1]>>
    ELSE <<>>

\* _write_record_at_pos: overwrite in place, or extend the file (zero-filled gap)
write_record_at_pos(data, record, pos) ==
    IF pos < Len(data) THEN [data EXCEPT ![pos + 1] = record]
    ELSE data \o [i \in 1..(pos - Len(data)) |-> ZeroRecord] \o <<record>>

\* add_record that never takes a slot from the free list
add_record_no_reuse(f, record) ==
    [fm |-> [f EXCEPT !.data = write_record_at_pos(f.data, [record EXCEPT !.next = 0], f.file_size),
                      !.file_size = f.file_size + 1],
     pos |-> f.file_size]

\* add_record: the manager afterwards and the slot returned
add_record(f, record) ==
    IF f.free_list_head # -1
    THEN LET pos_to_use == f.free_list_head
             record_at_pos == read_record(f, pos_to_use)
             head == record_at_pos[1].next
         IN  [fm |-> [f EXCEPT !.free_list_head = head,
                               !.data = write_record_at_pos(f.data, [record EXCEPT !.next = 0], pos_to_use),
                               !.header = head],
              pos |-> pos_to_use]
    ELSE LET pos_to_use == f.file_size
         IN  [fm |-> [f EXCEPT !.data = write_record_at_pos(f.data, [record EXCEPT !.next = 0], pos_to_use),
                               !.file_size = f.file_size + 1],
              pos |-> pos_to_use]

\* remove_record: the manager afterwards and the boolean returned
remove_record(f, pos) ==
    LET record == read_record(f, pos)
    IN  IF record = <<>> \/ record[1].next # 0
        THEN [fm |-> f, ok |-> FALSE]
        ELSE [fm |-> [f EXCEPT !.data = write_record_at_pos(f.data, [record[1] EXCEPT !.next = f.free_list_head], pos),
                               !.free_list_head = pos,
                               !.header = pos],
              ok |-> TRUE]

\* get_all_records: the records of slots 0..file_size-1 that read with next == 0
get_all_records(f) ==
    LET slots == <<>> \o [i \in 1..f.file_size |-> read_record(f, i - 1)]
        live(r) == r # <<>> /\ r[1].next = 0
    IN  <<>> \o [i \in 1..Len(SelectSeq(slots, live)) |-> SelectSeq(slots, live)[i][1]]

-----------------------------------------------------------------------------
(* bplus.py: the node objects live in tree.nodes, a node reference is an    *)
(* index into it, and the reference 0 is Python's None (end of leaf chain). *)
(* In a leaf, children[i] is the slot of keys[i].                           *)

BPlusTreeNode(is_leaf) == [is_leaf |-> is_leaf, keys |-> <<>>, children |-> <<>>, next |-> 0]

\* BPlusTree.__init__: the root is an empty leaf
NewBPlusTree(order) == [order |-> order, root |-> 1, nodes |-> <<BPlusTreeNode(TRUE)>>]

is_empty(t) == Len(t.nodes[t.root].keys) = 0

\* 0-based index of the first element of s that satisfies P, len(s) if none does
FirstIndex(s, hits) == IF hits = {} THEN Len(s) ELSE SetMin(hits) - 1


\* search with the branch rule 'key <= item' in internal nodes
RECURSIVE search_from_le(_, _, _)
search_from_le(nodes, n, key) ==
    LET node == nodes[n]
        i == FirstIndex(node.keys, {j \in 1..Len(node.keys) : IF node.is_leaf THEN node.keys[j] = key ELSE key <= node.keys[j]})
    IN  IF node.is_leaf
        THEN IF i < Len(node.keys) THEN node.children[i + 1] ELSE None
        ELSE IF i < Len(node.keys) THEN search_from_le(nodes, node.children[i + 1], key)
             ELSE search_from_le(nodes, Last(node.children), key)

\* search(key, node)
RECURSIVE search_from(_, _, _)
search_from(nodes, n, key) ==
    LET node == nodes[n]
        i == FirstIndex(node.keys, {j \in 1..Len(node.keys) : IF node.is_leaf THEN node.keys[j] = key ELSE key < node.keys[j]})
    IN  IF node.is_leaf
        THEN IF i < Len(node.keys) THEN node.children[i + 1] ELSE None
        ELSE IF i < Len(node.keys) THEN search_from(nodes, node.children[i + 1], key)
             ELSE search_from(nodes, Last(node.children), key)

search(t, key) == search_from(t.nodes, t.root, key)

RECURSIVE first_leaf(_, _)
first_leaf(nodes, n) == IF nodes[n].is_leaf THEN n ELSE first_leaf(nodes, nodes[n].children[1])

\* the inner loop of range_search over one leaf: stops at the first key > end
leaf_range(node, start, end) ==
    LET stop == FirstIndex(node.keys, {j \in 1..Len(node.keys) : ~(start <= node.keys[j] /\ node.keys[j] <= end) /\ node.keys[j] > end})
        seen == <<>> \o [i \in 1..stop |-> <<node.keys[i], node.children[i]>>]
    IN  SelectSeq(seen, LAMBDA p : start <= p[1] /\ p[1] <= end)

RECURSIVE range_from(_, _, _, _)
range_from(nodes, n, start, end) ==
    IF n = 0 THEN <<>>
    ELSE leaf_range(nodes[n], start, end) \o range_from(nodes, nodes[n].next, start, end)

\* range_search(start, end): the list of (key, pos) pairs
range_search(t, start, end) ==
    IF is_empty(t) THEN <<>>
    ELSE range_from(t.nodes, first_leaf(t.nodes, t.root), start, end)

\* _split_leaf that does not thread the new leaf into the chain
split_leaf_unlinked(nodes, n) ==
    LET node == nodes[n]
        mid == Len(node.keys) \div 2
        new_node == [is_leaf |-> TRUE,
                     keys |-> SubSeq(node.keys, mid + 1, Len(node.keys)),
                     children |-> SubSeq(node.children, mid + 1, Len(node.children)),
                     next |-> node.next]
    IN  [nodes |-> Append([nodes EXCEPT ![n] = [node EXCEPT !.keys = SubSeq(node.keys, 1, mid),
                                                           !.children = SubSeq(node.children, 1, mid)]],
                          new_node),
         new_child |-> <<new_node.keys[1], Len(nodes) + 1>>]

\* _split_leaf: the arena afterwards and the (key, node) pair returned
split_leaf(nodes, n) ==
    LET node == nodes[n]
        mid == Len(node.keys) \div 2
        new_node == [is_leaf |-> TRUE,
                     keys |-> SubSeq(node.keys, mid + 1, Len(node.keys)),
                     children |-> SubSeq(node.children, mid + 1, Len(node.children)),
                     next |-> node.next]
    IN  [nodes |-> Append([nodes EXCEPT ![n] = [node EXCEPT !.keys = SubSeq(node.keys, 1, mid),
                                                           !.children = SubSeq(node.children, 1, mid),
                                                           !.next = Len(nodes) + 1]],
                          new_node),
         new_child |-> <<new_node.keys[1], Len(nodes) + 1>>]

\* _split_internal
split_internal(nodes, n) ==
    LET node == nodes[n]
        mid == Len(node.keys) \div 2
        new_node == [is_leaf |-> FALSE,
                     keys |-> SubSeq(node.keys, mid + 2, Len(node.keys)),
                     children |-> SubSeq(node.children, mid + 2, Len(node.children)),
                     next |-> 0]
    IN  [nodes |-> Append([nodes EXCEPT ![n] = [node EXCEPT !.keys = SubSeq(node.keys, 1, mid),
                                                           !.children = SubSeq(node.children, 1, mid + 1)]],
                          new_node),
         new_child |-> <<node.keys[mid + 1], Len(nodes) + 1>>]

\* _insert_recursive: new_child is <<>> for None
RECURSIVE insert_recursive(_, _, _, _, _)
insert_recursive(nodes, order, n, key, pos) ==
    LET node == nodes[n]
    IN  IF node.is_leaf
        THEN IF key \in SeqToSet(node.keys)
             THEN LET idx == FirstIndex(node.keys, {j \in 1..Len(node.keys) : node.keys[j] = key})
                  IN  [nodes |-> [nodes EXCEPT ![n].children[idx + 1] = pos], new_child |-> <<>>]
             ELSE LET i == FirstIndex(node.keys, {j \in 1..Len(node.keys) : ~(node.keys[j] < key)})
                      nodes1 == [nodes EXCEPT ![n].keys = ListInsert(@, i, key),
                                              ![n].children = ListInsert(@, i, pos)]
                  IN  IF Len(nodes1[n].keys) > order THEN split_leaf(nodes1, n)
                      ELSE [nodes |-> nodes1, new_child |-> <<>>]
        ELSE LET i == FirstIndex(node.keys, {j \in 1..Len(node.keys) : ~(key >= node.keys[j])})
                 r == insert_recursive(nodes, order, node.children[i + 1], key, pos)
             IN  IF r.new_child # <<>>
                 THEN LET nodes1 == [r.nodes EXCEPT ![n].keys = ListInsert(@, i, r.new_child[1]),
                                                    ![n].children = ListInsert(@, i + 1, r.new_child[2])]
                      IN  IF Len(nodes1[n].keys) > order THEN split_internal(nodes1, n)
                          ELSE [nodes |-> nodes1, new_child |-> <<>>]
                 ELSE [nodes |-> r.nodes, new_child |-> <<>>]

\* the nodes reachable from n through children, parents first
RECURSIVE preorder(_, _), preorder_list(_, _)
preorder(nodes, n) ==
    <<n>> \o (IF nodes[n].is_leaf THEN <<>> ELSE preorder_list(nodes, nodes[n].children))
preorder_list(nodes, cs) ==
    IF cs = <<>> THEN <<>> ELSE preorder(nodes, Head(cs)) \o preorder_list(nodes, Tail(cs))

\* the lists of a list, joined in order
RECURSIVE concat_all(_)
concat_all(lists) ==
    IF lists = <<>> THEN <<>> ELSE Head(lists) \o concat_all(Tail(lists))

\* s without the later occurrences of an element
RECURSIVE dedupe(_)
dedupe(s) ==
    IF s = <<>> THEN <<>>
    ELSE LET front == dedupe(SubSeq(s, 1, Len(s) - 1))
         IN  IF Last(s) \in SeqToSet(front) THEN front ELSE Append(front, Last(s))

\* s extended by the nodes that only a next link still refers to
RECURSIVE close_next(_, _)
close_next(nodes, s) ==
    LET missing == {nodes[s[i]].next : i \in 1..Len(s)} \ ({0} \cup SeqToSet(s))
    IN  IF missing = {} THEN s ELSE close_next(nodes, Append(s, SetMin(missing)))

\* Object identity: only the nodes still referenced from the root exist, and a
\* reference says nothing but which node it is. The referenced nodes are
\* renumbered in preorder, unreferenced ones are dropped.
collect(t) ==
    LET live == close_next(t.nodes, dedupe(preorder(t.nodes, t.root)))
        ref(n) == IF n = 0 THEN 0 ELSE SetMin({i \in 1..Len(live) : live[i] = n})
        copy(node) == [node EXCEPT !.children = IF node.is_leaf THEN @
                                                ELSE <<>> \o [j \in 1..Len(@) |-> ref(@[j])],
                                   !.next = ref(@)]
    IN  [order |-> t.order, root |-> ref(t.root),
         nodes |-> <<>> \o [i \in 1..Len(live) |-> copy(t.nodes[live[i]])]]

\* insert(key, pos), without the save that follows it
insert(t, key, pos) ==
    LET r == insert_recursive(t.nodes, t.order, t.root, key, pos)
    IN  IF r.new_child # <<>>
        THEN LET new_root == [is_leaf |-> FALSE, keys |-> <<r.new_child[1]>>,
                              children |-> <<t.root, r.new_child[2]>>, next |-> 0]
             IN  collect([t EXCEPT !.nodes = Append(r.nodes, new_root), !.root = Len(r.nodes) + 1])
        ELSE collect([t EXCEPT !.nodes = r.nodes])

\* _update_recursive
RECURSIVE update_recursive(_, _, _, _)
update_recursive(nodes, n, key, pos) ==
    LET node == nodes[n]
        i == FirstIndex(node.keys, {j \in 1..Len(node.keys) : IF node.is_leaf THEN node.keys[j] = key ELSE key < node.keys[j]})
    IN  IF node.is_leaf
        THEN IF i < Len(node.keys) THEN [nodes EXCEPT ![n].children[i + 1] = pos] ELSE nodes
        ELSE IF i < Len(node.keys) THEN update_recursive(nodes, node.children[i + 1], key, pos)
             ELSE update_recursive(nodes, Last(node.children), key, pos)

\* update(key, pos), without the save that follows it
update(t, key, pos) ==
    IF search(t, key) # None
    THEN collect([t EXCEPT !.nodes = update_recursive(t.nodes, t.root, key, pos)])
    ELSE insert(t, key, pos)

\* the occupancy under which _delete_recursive rebalances a child
min_keys(order) == (order + 1) \div 2

\* _merge that leaves the merged leaf pointing at the leaf it absorbed
merge_keep_next(nodes, parent, idx) ==
    LET p == nodes[parent]
        c == p.children[idx + 1]
        sib == p.children[idx + 2]
        child == nodes[c]
        sibling == nodes[sib]
        merged == IF child.is_leaf
                  THEN [child EXCEPT !.keys = @ \o sibling.keys,
                                     !.children = @ \o sibling.children]
                  ELSE [child EXCEPT !.keys = Append(@, p.keys[idx + 1]) \o sibling.keys,
                                     !.children = @ \o sibling.children]
    IN  [nodes EXCEPT ![c] = merged,
                      ![parent].keys = ListDel(@, idx),
                      ![parent].children = ListDel(@, idx + 1)]

\* _merge(parent, idx): children idx and idx+1 of parent become one node
merge(nodes, parent, idx) ==
    LET p == nodes[parent]
        c == p.children[idx + 1]
        sib == p.children[idx + 2]
        child == nodes[c]
        sibling == nodes[sib]
        merged == IF child.is_leaf
                  THEN [child EXCEPT !.keys = @ \o sibling.keys,
                                     !.children = @ \o sibling.children,
                                     !.next = sibling.next]
                  ELSE [child EXCEPT !.keys = Append(@, p.keys[idx + 1]) \o sibling.keys,
                                     !.children = @ \o sibling.children]
    IN  [nodes EXCEPT ![c] = merged,
                      ![parent].keys = ListDel(@, idx),
                      ![parent].children = ListDel(@, idx + 1)]

\* _rebalance that borrows from a left sibling holding just the minimum
rebalance_eager(nodes, order, parent, idx) ==
    LET p == nodes[parent]
        c == p.children[idx + 1]
        child == nodes[c]
        l == p.children[idx]
        left == nodes[l]
        r == p.children[idx + 2]
        right == nodes[r]
        half == (order + 1) \div 2
    IN  IF idx > 0 /\ Len(left.keys) >= half
        THEN IF child.is_leaf
             THEN [nodes EXCEPT ![c].keys = <<Last(left.keys)>> \o @,
                                ![c].children = <<Last(left.children)>> \o @,
                                ![l].keys = SubSeq(@, 1, Len(@) - 1),
                                ![l].children = SubSeq(@, 1, Len(@) - 1),
                                ![parent].keys[idx] = Last(left.keys)]
             ELSE [nodes EXCEPT ![c].keys = <<p.keys[idx]>> \o @,
                                ![c].children = <<Last(left.children)>> \o @,
                                ![l].keys = SubSeq(@, 1, Len(@) - 1),
                                ![l].children = SubSeq(@, 1, Len(@) - 1),
                                ![parent].keys[idx] = Last(left.keys)]
        ELSE IF idx < Len(p.children) - 1 /\ Len(right.keys) > half
        THEN IF child.is_leaf
             THEN [nodes EXCEPT ![c].keys = Append(@, right.keys[1]),
                                ![c].children = Append(@, right.children[1]),
                                ![r].keys = Tail(@),
                                ![r].children = Tail(@),
                                ![parent].keys[idx + 1] = right.keys[2]]
             ELSE [nodes EXCEPT ![c].keys = Append(@, p.keys[idx + 1]),
                                ![c].children = Append(@, right.children[1]),
                                ![r].keys = Tail(@),
                                ![r].children = Tail(@),
                                ![parent].keys[idx + 1] = right.keys[1]]
        ELSE IF idx > 0 THEN merge(nodes, parent, idx - 1)
             ELSE merge(nodes, parent, idx)

\* _rebalance(parent, idx): borrow from the left, else from the right, else merge
rebalance(nodes, order, parent, idx) ==
    LET p == nodes[parent]
        c == p.children[idx + 1]
        child == nodes[c]
        l == p.children[idx]
        left == nodes[l]
        r == p.children[idx + 2]
        right == nodes[r]
        half == (order + 1) \div 2
    IN  IF idx > 0 /\ Len(left.keys) > half
        THEN IF child.is_leaf
             THEN [nodes EXCEPT ![c].keys = <<Last(left.keys)>> \o @,
                                ![c].children = <<Last(left.children)>> \o @,
                                ![l].keys = SubSeq(@, 1, Len(@) - 1),
                                ![l].children = SubSeq(@, 1, Len(@) - 1),
                                ![parent].keys[idx] = Last(left.keys)]
             ELSE [nodes EXCEPT ![c].keys = <<p.keys[idx]>> \o @,
                                ![c].children = <<Last(left.children)>> \o @,
                                ![l].keys = SubSeq(@, 1, Len(@) - 1),
                                ![l].children = SubSeq(@, 1, Len(@) - 1),
                                ![parent].keys[idx] = Last(left.keys)]
        ELSE IF idx < Len(p.children) - 1 /\ Len(right.keys) > half
        THEN IF child.is_leaf
             THEN [nodes EXCEPT ![c].keys = Append(@, right.keys[1]),
                                ![c].children = Append(@, right.children[1]),
                                ![r].keys = Tail(@),
                                ![r].children = Tail(@),
                                ![parent].keys[idx + 1] = right.keys[2]]
             ELSE [nodes EXCEPT ![c].keys = Append(@, p.keys[idx + 1]),
                                ![c].children = Append(@, right.children[1]),
                                ![r].keys = Tail(@),
                                ![r].children = Tail(@),
                                ![parent].keys[idx + 1] = right.keys[1]]
        ELSE IF idx > 0 THEN merge(nodes, parent, idx - 1)
             ELSE merge(nodes, parent, idx)

\* _delete_recursive
RECURSIVE delete_recursive(_, _, _, _)
delete_recursive(nodes, order, n, key) ==
    LET node == nodes[n]
    IN  IF node.is_leaf
        THEN IF key \in SeqToSet(node.keys)
             THEN LET idx == FirstIndex(node.keys, {j \in 1..Len(node.keys) : node.keys[j] = key})
                  IN  [nodes EXCEPT ![n].keys = ListDel(@, idx), ![n].children = ListDel(@, idx)]
             ELSE nodes
        ELSE LET i == FirstIndex(node.keys, {j \in 1..Len(node.keys) : ~(key >= node.keys[j])})
                 nodes1 == delete_recursive(nodes, order, node.children[i + 1], key)
             IN  IF Len(nodes1[node.children[i + 1]].keys) < (order + 1) \div 2
                 THEN rebalance(nodes1, order, n, i)
                 ELSE nodes1

\* delete(key), without the save that follows it
delete(t, key) ==
    LET nodes1 == delete_recursive(t.nodes, t.order, t.root, key)
        root == nodes1[t.root]
    IN  IF ~root.is_leaf /\ Len(root.keys) = 0
        THEN collect([t EXCEPT !.nodes = nodes1, !.root = root.children[1]])
        ELSE collect([t EXCEPT !.nodes = nodes1])

\* what delete(key) returns: the method has no return statement
delete_result(t, key) == None

\* traverse_leaves: the leaves of the chain, from the leftmost leaf of the tree
RECURSIVE chain_from(_, _)
chain_from(nodes, n) == IF n = 0 THEN <<>> ELSE <<n>> \o chain_from(nodes, nodes[n].next)

traverse_leaves(t) == chain_from(t.nodes, first_leaf(t.nodes, t.root))

-----------------------------------------------------------------------------
(* isam.py: idx_l3 is the sorted list of (key, pos) pairs, overflow a dict   *)
(* from key to the list of further positions                                *)

IDX_ENTRY_SIZE == 8
IDX_PAGE_HEADER == 4
IDX_BLOCK_FACTOR == (4096 - IDX_PAGE_HEADER) \div IDX_ENTRY_SIZE

\* ISAMIndex.__init__
NewISAMIndex == [idx_l1 |-> <<>>, idx_l2 |-> <<>>, idx_l3 |-> <<>>, overflow |-> <<>>]

\* one summary entry (first key, start) per IDX_BLOCK_FACTOR entries of a level
summary(level) ==
    <<>> \o [i \in 1..((Len(level) + IDX_BLOCK_FACTOR - 1) \div IDX_BLOCK_FACTOR) |->
        <<level[(i - 1) * IDX_BLOCK_FACTOR + 1][1], (i - 1) * IDX_BLOCK_FACTOR>>]

\* recontruir2y1
recontruir2y1(x) == [x EXCEPT !.idx_l2 = summary(x.idx_l3), !.idx_l1 = summary(summary(x.idx_l3))]

\* insert_pos: binary search for the first entry whose key is >= key (0-based)
RECURSIVE insert_pos_loop(_, _, _, _)
insert_pos_loop(lista, key, lo, hi) ==
    IF lo < hi
    THEN LET mid == (lo + hi) \div 2
         IN  IF lista[mid + 1][1] < key THEN insert_pos_loop(lista, key, mid + 1, hi)
             ELSE insert_pos_loop(lista, key, lo, mid)
    ELSE lo

insert_pos(lista, key) == insert_pos_loop(lista, key, 0, Len(lista))

\* 0-based index of the base entry of key as insert / search / delete / update
\* look for it (at insert_pos, else just before it), None if there is none
base_index(x, key) ==
    LET i == insert_pos(x.idx_l3, key)
    IN  IF i < Len(x.idx_l3) /\ x.idx_l3[i + 1][1] = key THEN i
        ELSE IF i > 0 /\ x.idx_l3[i][1] = key THEN i - 1
        ELSE None

\* dict.get(key, []) on the overflow dict
overflow_get(x, key) == IF key \in DOMAIN x.overflow THEN x.overflow[key] ELSE <<>>

\* the overflow dict with key bound to list
overflow_set(x, key, list) ==
    [k \in DOMAIN x.overflow \cup {key} |-> IF k = key THEN list ELSE x.overflow[k]]

\* the overflow dict without key
overflow_pop(x, key) == [k \in DOMAIN x.overflow \ {key} |-> x.overflow[k]]

\* insert that puts a further position at the head of the overflow list
isam_insert_front(x, key, pos) ==
    IF x.idx_l3 = <<>>
    THEN recontruir2y1([x EXCEPT !.idx_l3 = <<<<key, pos>>>>])
    ELSE LET b == base_index(x, key)
             i == insert_pos(x.idx_l3, key)
         IN  IF b # None
             THEN LET base_pos == x.idx_l3[b + 1][2]
                      list == overflow_get(x, key)
                  IN  IF pos # base_pos /\ pos \notin SeqToSet(list)
                      THEN [x EXCEPT !.overflow = overflow_set(x, key, <<pos>> \o list)]
                      ELSE [x EXCEPT !.overflow = overflow_set(x, key, list)]
             ELSE LET x1 == [x EXCEPT !.idx_l3 = ListInsert(@, i, <<key, pos>>)]
                  IN  recontruir2y1(IF key \in DOMAIN x1.overflow /\ x1.overflow[key] = <<>>
                                    THEN [x1 EXCEPT !.overflow = overflow_pop(x1, key)]
                                    ELSE x1)

\* ISAMIndex.insert
isam_insert(x, key, pos) ==
    IF x.idx_l3 = <<>>
    THEN recontruir2y1([x EXCEPT !.idx_l3 = <<<<key, pos>>>>])
    ELSE LET b == base_index(x, key)
             i == insert_pos(x.idx_l3, key)
         IN  IF b # None
             THEN LET base_pos == x.idx_l3[b + 1][2]
                      list == overflow_get(x, key)
                  IN  IF pos # base_pos /\ pos \notin SeqToSet(list)
                      THEN [x EXCEPT !.overflow = overflow_set(x, key, Append(list, pos))]
                      ELSE [x EXCEPT !.overflow = overflow_set(x, key, list)]
             ELSE LET x1 == [x EXCEPT !.idx_l3 = ListInsert(@, i, <<key, pos>>)]
                  IN  recontruir2y1(IF key \in DOMAIN x1.overflow /\ x1.overflow[key] = <<>>
                                    THEN [x1 EXCEPT !.overflow = overflow_pop(x1, key)]
                                    ELSE x1)

\* ISAMIndex.search: the base position or None
isam_search(x, key) ==
    IF x.idx_l3 = <<>> \/ base_index(x, key) = None THEN None
    ELSE x.idx_l3[base_index(x, key) + 1][2]

\* ISAMIndex.get_all_positions
get_all_positions(x, key) ==
    IF isam_search(x, key) = None THEN <<>>
    ELSE <<isam_search(x, key)>> \o overflow_get(x, key)

\* delete that promotes the last overflow position
isam_delete_last(x, key) ==
    IF x.idx_l3 = <<>> \/ base_index(x, key) = None
    THEN [index |-> x, ok |-> FALSE]
    ELSE LET b == base_index(x, key)
             list == overflow_get(x, key)
         IN  IF list # <<>>
             THEN [index |-> [x EXCEPT !.idx_l3[b + 1] = <<key, Last(list)>>,
                                       !.overflow = IF SubSeq(list, 1, Len(list) - 1) = <<>> THEN overflow_pop(x, key)
                                                    ELSE overflow_set(x, key, SubSeq(list, 1, Len(list) - 1))],
                   ok |-> TRUE]
             ELSE [index |-> recontruir2y1([x EXCEPT !.idx_l3 = ListDel(@, b)]), ok |-> TRUE]

\* ISAMIndex.delete: the index afterwards and the boolean returned
isam_delete(x, key) ==
    IF x.idx_l3 = <<>> \/ base_index(x, key) = None
    THEN [index |-> x, ok |-> FALSE]
    ELSE LET b == base_index(x, key)
             list == overflow_get(x, key)
         IN  IF list # <<>>
             THEN [index |-> [x EXCEPT !.idx_l3[b + 1] = <<key, Head(list)>>,
                                       !.overflow = IF Tail(list) = <<>> THEN overflow_pop(x, key)
                                                    ELSE overflow_set(x, key, Tail(list))],
                   ok |-> TRUE]
             ELSE [index |-> recontruir2y1([x EXCEPT !.idx_l3 = ListDel(@, b)]), ok |-> TRUE]

\* ISAMIndex.range_search: base and overflow positions of the keys up to end_key
RECURSIVE isam_range_from(_, _, _)
isam_range_from(x, j, end_key) ==
    IF j < Len(x.idx_l3) /\ x.idx_l3[j + 1][1] <= end_key
    THEN LET key == x.idx_l3[j + 1][1]
             extras == overflow_get(x, key)
         IN  <<x.idx_l3[j + 1]>> \o [e \in 1..Len(extras) |-> <<key, extras[e]>>]
                \o isam_range_from(x, j + 1, end_key)
    ELSE <<>>

isam_range_search(x, start_key, end_key) ==
    IF x.idx_l3 = <<>> THEN <<>>
    ELSE LET i == insert_pos(x.idx_l3, start_key)
         IN  isam_range_from(x, IF i > 0 /\ x.idx_l3[i][1] >= start_key THEN i - 1 ELSE i, end_key)

\* ISAMIndex.load_from_file on an existing snapshot
isam_load(state) ==
    IF state.idx_l2 = <<>> \/ state.idx_l1 = <<>> THEN recontruir2y1(state) ELSE state

-----------------------------------------------------------------------------
(* indexes/sequential_file.py: the main file (.dat) and the aux file (.aux)  *)
(* hold packed records; next = -1 marks a deleted record                    *)

K_THRESHOLD == 5

\* SequentialIndex.__init__: both files are created empty when missing and the
\* counter is the number of records in the aux file
OpenSequentialIndex(main, aux) == [main |-> main, aux |-> aux, aux_records_count |-> Len(aux)]

\* list.sort(key=lambda r: r.key): stable insertion of r into a sorted list
RECURSIVE sort_by_key(_)
sort_by_key(records) ==
    IF records = <<>> THEN <<>>
    ELSE LET front == sort_by_key(SubSeq(records, 1, Len(records) - 1))
             r == Last(records)
             i == FirstIndex(front, {j \in 1..Len(front) : front[j].key > r.key})
         IN  ListInsert(front, i, r)

\* a merge loop that writes the aux record first when the keys are equal
RECURSIVE merge_files_aux_first(_, _)
merge_files_aux_first(main, aux_sorted) ==
    IF main = <<>> /\ aux_sorted = <<>> THEN <<>>
    ELSE IF main # <<>> /\ Head(main).next # 0 THEN merge_files_aux_first(Tail(main), aux_sorted)
    ELSE IF main # <<>> /\ (aux_sorted = <<>> \/ Head(main).key < Head(aux_sorted).key)
         THEN <<Head(main)>> \o merge_files_aux_first(Tail(main), aux_sorted)
    ELSE <<Head(aux_sorted)>> \o merge_files_aux_first(main, Tail(aux_sorted))

\* the merge loop of _rebuild over the unread part of main and of the sorted aux list
RECURSIVE merge_files(_, _)
merge_files(main, aux_sorted) ==
    IF main = <<>> /\ aux_sorted = <<>> THEN <<>>
    ELSE IF main # <<>> /\ Head(main).next # 0 THEN merge_files(Tail(main), aux_sorted)
    ELSE IF main # <<>> /\ (aux_sorted = <<>> \/ Head(main).key <= Head(aux_sorted).key)
         THEN <<Head(main)>> \o merge_files(Tail(main), aux_sorted)
    ELSE <<Head(aux_sorted)>> \o merge_files(main, Tail(aux_sorted))

\* _rebuild
rebuild(q) ==
    [main |-> merge_files(q.main, sort_by_key(SelectSeq(q.aux, LAMBDA r : r.next = 0))),
     aux |-> <<>>,
     aux_records_count |-> 0]

\* add that rebuilds only once the counter exceeds K
seq_add_late(q, record) ==
    LET q1 == [q EXCEPT !.aux = Append(@, record), !.aux_records_count = @ + 1]
    IN  IF q1.aux_records_count > K_THRESHOLD THEN rebuild(q1) ELSE q1

\* add / insert
seq_add(q, record) ==
    LET q1 == [q EXCEPT !.aux = Append(@, record), !.aux_records_count = @ + 1]
    IN  IF q1.aux_records_count >= K_THRESHOLD THEN rebuild(q1) ELSE q1

\* the binary search loop on the main file shared by _binary_search_data_file
\* and remove: the 0-based position of a record with the key, None if the loop
\* ends without meeting one
RECURSIVE binary_search(_, _, _, _)
binary_search(main, key, low, high) ==
    IF low <= high
    THEN LET mid == (low + high) \div 2
         IN  IF main[mid + 1].key = key THEN mid
             ELSE IF main[mid + 1].key < key THEN binary_search(main, key, mid + 1, high)
             ELSE binary_search(main, key, low, mid - 1)
    ELSE None

\* 0-based position of the first record of the aux file with the key, None if none
linear_search(aux, key) ==
    LET i == FirstIndex(aux, {j \in 1..Len(aux) : aux[j].key = key})
    IN  IF i < Len(aux) THEN i ELSE None

\* _search_record: the record found (optional)
search_record(q, key) ==
    LET m == binary_search(q.main, key, 0, Len(q.main) - 1)
        a == linear_search(q.aux, key)
    IN  IF m # None /\ q.main[m + 1].next = 0 THEN <<q.main[m + 1]>>
        ELSE IF a # None /\ q.aux[a + 1].next = 0 THEN <<q.aux[a + 1]>>
        ELSE <<>>

\* remove / delete: the index afterwards and the boolean returned
seq_remove(q, key) ==
    LET m == binary_search(q.main, key, 0, Len(q.main) - 1)
        a == linear_search(q.aux, key)
    IN  IF m # None
        THEN IF q.main[m + 1].next = 0
             THEN [index |-> [q EXCEPT !.main[m + 1].next = -1], ok |-> TRUE]
             ELSE [index |-> q, ok |-> FALSE]
        ELSE IF a # None /\ q.aux[a + 1].next = 0
             THEN [index |-> [q EXCEPT !.aux[a + 1].next = -1], ok |-> TRUE]
             ELSE [index |-> q, ok |-> FALSE]

\* rangeSearch: live records of main up to the first live key > end_key, then
\* the live records of aux in the range
rangeSearch(q, begin_key, end_key) ==
    LET stop == FirstIndex(q.main, {j \in 1..Len(q.main) : q.main[j].next = 0 /\ q.main[j].key > end_key})
    IN  SelectSeq(SubSeq(q.main, 1, stop), LAMBDA r : r.next = 0 /\ r.key >= begin_key)
        \o SelectSeq(q.aux, LAMBDA r : r.next = 0 /\ begin_key <= r.key /\ r.key <= end_key)

\* save_to_file
seq_save_to_file(q) == IF q.aux_records_count > 0 THEN rebuild(q) ELSE q

-----------------------------------------------------------------------------
(* core/databasemanager.py. db.file_manager carries the data and header     *)
(* files with the FileManager's fields, db.index_file is the .idx file      *)
(* (<<>> when absent, else the pickled index), db.open is false when the    *)
(* constructor raised and there is no manager object.                       *)

IndexTypes == {"bplus", "isam", "sequential"}

\* BPlusTreePersistence.save_tree: pickle writes the objects reachable from the root
save_tree(t) == <<collect(t)>>

\* BPlusTree.load_from_file / load_tree: the fresh tree of the file's order
\* takes the pickled root
load_tree(file) == [order |-> file[1].order, root |-> file[1].root, nodes |-> file[1].nodes]

\* a state dict without the overflow lists
isam_save_base(x) == <<[x EXCEPT !.overflow = <<>>]>>

\* ISAMIndex.save_to_file: the state dict
isam_save(x) == <<x>>

\* index.insert(key, pos) as the manager calls it; the B+ tree saves itself
index_insert(d, key, pos) ==
    IF d.index_type = "isam"
    THEN [d EXCEPT !.index = isam_insert(d.index, key, pos)]
    ELSE LET t == insert(d.index, key, pos)
         IN  [d EXCEPT !.index = t, !.index_file = save_tree(t)]

\* index.delete(key) as the manager calls it; the B+ tree saves itself
index_delete(d, key) ==
    IF d.index_type = "isam"
    THEN [d EXCEPT !.index = isam_delete(d.index, key).index]
    ELSE LET t == delete(d.index, key)
         IN  [d EXCEPT !.index = t, !.index_file = save_tree(t)]

index_search(d, key) ==
    IF d.index_type = "isam" THEN isam_search(d.index, key) ELSE search(d.index, key)

index_is_empty(d) ==
    IF d.index_type = "isam" THEN d.index.idx_l3 = <<>> ELSE is_empty(d.index)

\* the while loop of load_index_from_file from slot idx on
RECURSIVE scan_heap(_, _)
scan_heap(d, idx) ==
    LET record == read_record(d.file_manager, idx)
    IN  IF record = <<>> THEN [d EXCEPT !.file_manager.file_size = idx]
        ELSE IF record[1].next = 0 THEN scan_heap(index_insert(d, record[1].key, idx), idx + 1)
        ELSE scan_heap(d, idx + 1)

\* load_index_from_file: after the scan the message calls index.traverse_leaves(),
\* which ISAMIndex does not have, so the constructor raises AttributeError
load_index_from_file(d) ==
    IF index_is_empty(d) /\ Len(d.file_manager.data) > 0
    THEN [scan_heap(d, 0) EXCEPT !.open = (d.index_type # "isam")]
    ELSE d

\* DatabaseManager.__init__ for a table that has no files yet
NewDatabase(index_type, order) ==
    [index_type |-> index_type, open |-> TRUE, order |-> order,
     file_manager |-> NewFileManager,
     index |-> CASE index_type = "bplus" -> NewBPlusTree(order)
                 [] index_type = "isam" -> NewISAMIndex
                 [] index_type = "sequential" -> OpenSequentialIndex(<<>>, <<>>),
     index_file |-> <<>>]

\* DatabaseManager.__init__ on the files that d left
OpenDatabase(d) ==
    IF d.index_type = "sequential"
    THEN [d EXCEPT !.open = TRUE, !.index = OpenSequentialIndex(d.index.main, d.index.aux)]
    ELSE LET f == OpenFileManager(d.file_manager)
         IN  IF d.index_file # <<>>
             THEN [d EXCEPT !.open = TRUE, !.file_manager = f,
                            !.index = IF d.index_type = "isam" THEN isam_load(d.index_file[1])
                                      ELSE d.index_file[1]]
             ELSE load_index_from_file(
                      [d EXCEPT !.open = TRUE, !.file_manager = f,
                                !.index = IF d.index_type = "isam" THEN NewISAMIndex
                                          ELSE NewBPlusTree(d.order)])

\* add_record
db_add_record(d, record) ==
    IF d.index_type = "sequential"
    THEN [d EXCEPT !.index = seq_add(d.index, record)]
    ELSE LET r == add_record(d.file_manager, record)
         IN  index_insert([d EXCEPT !.file_manager = r.fm], record.key, r.pos)

\* get_record: the record (for a sequential table, its values) or None
db_get_record(d, key) ==
    IF d.index_type = "sequential" THEN search_record(d.index, key)
    ELSE IF index_search(d, key) # None THEN read_record(d.file_manager, index_search(d, key))
    ELSE <<>>

\* remove_record: the manager afterwards and the boolean returned
db_remove_record(d, key) ==
    IF d.index_type = "sequential"
    THEN [db |-> [d EXCEPT !.index = seq_remove(d.index, key).index],
          ok |-> seq_remove(d.index, key).ok]
    ELSE LET pos == index_search(d, key)
             r == remove_record(d.file_manager, pos)
         IN  IF pos # None /\ r.ok
             THEN [db |-> index_delete([d EXCEPT !.file_manager = r.fm], key), ok |-> TRUE]
             ELSE [db |-> d, ok |-> FALSE]

\* update_record: the manager afterwards and the boolean returned
db_update_record(d, key, new_values) ==
    IF d.index_type = "sequential"
    THEN IF db_get_record(d, key) # <<>> /\ db_remove_record(d, key).ok
         THEN [db |-> db_add_record(db_remove_record(d, key).db, new_values), ok |-> TRUE]
         ELSE [db |-> d, ok |-> FALSE]
    ELSE LET pos == index_search(d, key)
         IN  IF pos # None
             THEN [db |-> [d EXCEPT !.file_manager.data =
                                        write_record_at_pos(@, [new_values EXCEPT !.next = 0], pos)],
                   ok |-> TRUE]
             ELSE [db |-> d, ok |-> FALSE]

\* range_search: the live records at the positions the index returns
db_range_search(d, start_key, end_key) ==
    IF d.index_type = "sequential" THEN rangeSearch(d.index, start_key, end_key)
    ELSE LET positions == IF d.index_type = "isam" THEN isam_range_search(d.index, start_key, end_key)
                          ELSE range_search(d.index, start_key, end_key)
             records == <<>> \o [i \in 1..Len(positions) |-> read_record(d.file_manager, positions[i][2])]
             found == SelectSeq(records, LAMBDA r : r # <<>> /\ r[1].next = 0)
         IN  <<>> \o [i \in 1..Len(found) |-> found[i][1]]

\* get_all
db_get_all(d) ==
    IF d.index_type = "sequential"
    THEN SelectSeq(d.index.main, LAMBDA r : r.next = 0) \o SelectSeq(d.index.aux, LAMBDA r : r.next = 0)
    ELSE get_all_records(d.file_manager)

\* save_all
db_save_all(d) ==
    CASE d.index_type = "sequential" -> [d EXCEPT !.index = seq_save_to_file(d.index)]
      [] d.index_type = "isam" -> [d EXCEPT !.index_file = isam_save(d.index)]
      [] d.index_type = "bplus" -> [d EXCEPT !.index_file = save_tree(d.index)]

-----------------------------------------------------------------------------
(* ExtendibleHashing.py: directory is the list of references to the primary  *)
(* buckets (element i+1 is slot i), buckets the bucket objects; a bucket's   *)
(* next is <<>> for None or holds the one chained bucket; a record is the    *)
(* pair <<key, value>>; failed says that a call raised MemoryError, which    *)
(* unwinds every frame of the call without a further assignment              *)

RECURSIVE Pow2(_)
Pow2(n) == IF n = 0 THEN 1 ELSE 2 * Pow2(n - 1)

\* hash(key) of a small Python int: the int itself, except hash(-1) == -2
py_hash(key) == IF key = -1 THEN -2 ELSE key

\* Bucket(d, fb)
Bucket(d, fb) == [d |-> d, fb |-> fb, records |-> <<>>, next |-> <<>>]

isfull(bucket) == Len(bucket.records) >= bucket.fb

\* ExtendibleHashing(bucketSize): D = 2, two buckets of depth 1
NewExtendibleHashing(bucketSize) ==
    [D |-> 2, bucketSize |-> bucketSize, failed |-> FALSE,
     directory |-> <<1, 2, 1, 2>>,
     buckets |-> <<Bucket(1, bucketSize), Bucket(1, bucketSize)>>]

\* EH_hash: Python's % gives a result in 0 .. 2^D - 1 for negative hashes too
EH_hash(e, key) == py_hash(key) % Pow2(e.D)

\* the directory of a split that tells the slots apart by bit d
split_directory_next_bit(directory, old_bucket, new_bucket, d) ==
    <<>> \o [i \in 1..Len(directory) |->
        IF directory[i] = old_bucket /\ ((i - 1) \div Pow2(d)) % 2 = 1
        THEN new_bucket ELSE directory[i]]

\* the directory of split(pos): the slots of old_bucket whose bit d-1 is set
\* go to new_bucket
split_directory(directory, old_bucket, new_bucket, d) ==
    <<>> \o [i \in 1..Len(directory) |->
        IF directory[i] = old_bucket /\ ((i - 1) \div Pow2(d - 1)) % 2 = 1
        THEN new_bucket ELSE directory[i]]

RECURSIVE eh_insert(_, _, _), insert_all(_, _), split(_, _), rehash_loop(_, _, _), rehash(_)

\* for k, v in records2reinsert: self.insert(k, v)
insert_all(e, records) ==
    IF records = <<>> \/ e.failed THEN e
    ELSE insert_all(eh_insert(e, Head(records)[1], Head(records)[2]), Tail(records))

\* split(pos)
split(e, pos) ==
    LET old_bucket == e.directory[pos + 1]
        d == e.buckets[old_bucket].d + 1
        new_bucket == Len(e.buckets) + 1
        records2reinsert == e.buckets[old_bucket].records
    IN  insert_all([e EXCEPT !.directory = split_directory(@, old_bucket, new_bucket, d),
                             !.buckets = Append([@ EXCEPT ![old_bucket].d = d,
                                                          ![old_bucket].records = <<>>],
                                                Bucket(d, e.bucketSize))],
                   records2reinsert)

\* the for loop of rehash from slot i on, over the n slots the directory had
\* when the loop began
rehash_loop(e, i, n) ==
    IF i >= n \/ e.failed THEN e
    ELSE LET b == e.directory[i + 1]
             bucket == e.buckets[b]
         IN  IF bucket.next # <<>>
             THEN rehash_loop(insert_all([e EXCEPT !.buckets[b].next = <<>>], bucket.next[1].records),
                              i + 1, n)
             ELSE rehash_loop(e, i + 1, n)

\* rehash; self.directory * 2 raises MemoryError, D already incremented, when
\* the doubled list does not fit
rehash(e) ==
    IF 2 * Len(e.directory) > Pow2(MaxDepth)
    THEN [e EXCEPT !.D = @ + 1, !.failed = TRUE]
    ELSE rehash_loop([e EXCEPT !.D = @ + 1, !.directory = @ \o @], 0, 2 * Len(e.directory))

\* insert(key, value)
eh_insert(e, key, value) ==
    LET pos == EH_hash(e, key)
        b == e.directory[pos + 1]
        bucket == e.buckets[b]
    IN  IF e.failed THEN e
        ELSE IF ~isfull(bucket)
        THEN [e EXCEPT !.buckets[b].records = Append(@, <<key, value>>)]
        ELSE IF bucket.d < e.D
        THEN eh_insert(split(e, pos), key, value)
        ELSE IF bucket.next = <<>>
        THEN [e EXCEPT !.buckets[b].next =
                          <<[Bucket(bucket.d, e.bucketSize) EXCEPT !.records = <<<<key, value>>>>]>>]
        ELSE IF ~isfull(bucket.next[1])
        THEN [e EXCEPT !.buckets[b].next[1].records = Append(@, <<key, value>>)]
        ELSE eh_insert(rehash(e), key, value)

\* the value of the first record with the key in a record list, None if none
first_value(records, key) ==
    IF \E i \in 1..Len(records) : records[i][1] = key
    THEN records[SetMin({i \in 1..Len(records) : records[i][1] = key})][2]
    ELSE None

\* the records of a bucket followed by those of its chained bucket
chain_records(bucket) ==
    bucket.records \o (IF bucket.next = <<>> THEN <<>> ELSE bucket.next[1].records)

\* search(key)
eh_search(e, key) ==
    first_value(chain_records(e.buckets[e.directory[EH_hash(e, key) + 1]]), key)

\* delete(key): the first record with the key in the primary bucket, else the
\* first in the chained bucket, which is released when it becomes empty
eh_delete(e, key) ==
    LET b == e.directory[EH_hash(e, key) + 1]
        bucket == e.buckets[b]
        hits == {i \in 1..Len(bucket.records) : bucket.records[i][1] = key}
        nrecs == IF bucket.next = <<>> THEN <<>> ELSE bucket.next[1].records
        nhits == {i \in 1..Len(nrecs) : nrecs[i][1] = key}
    IN  IF hits # {}
        THEN [e EXCEPT !.buckets[b].records = ListDel(@, SetMin(hits) - 1)]
        ELSE IF nhits # {}
        THEN IF Len(nrecs) = 1
             THEN [e EXCEPT !.buckets[b].next = <<>>]
             ELSE [e EXCEPT !.buckets[b].next[1].records = ListDel(@, SetMin(nhits) - 1)]
        ELSE e

\* the message delete(key) returns, without the key it starts with
eh_delete_message(e, key) ==
    LET bucket == e.buckets[e.directory[EH_hash(e, key) + 1]]
        nrecs == IF bucket.next = <<>> THEN <<>> ELSE bucket.next[1].records
    IN  IF \E i \in 1..Len(bucket.records) : bucket.records[i][1] = key
        THEN "eliminado en el bucket principal"
        ELSE IF \E i \in 1..Len(nrecs) : nrecs[i][1] = key
        THEN IF Len(nrecs) = 1 THEN "eliminado, liberando bucket encadenado"
             ELSE "eliminado en el bucket encadenado"
        ELSE "no encontrado"

\* update(key, pos): overwrite the first record with the key, primary bucket
\* first; nothing else
eh_update(e, key, pos) ==
    LET b == e.directory[EH_hash(e, key) + 1]
        bucket == e.buckets[b]
        hits == {i \in 1..Len(bucket.records) : bucket.records[i][1] = key}
        nrecs == IF bucket.next = <<>> THEN <<>> ELSE bucket.next[1].records
        nhits == {i \in 1..Len(nrecs) : nrecs[i][1] = key}
    IN  IF hits # {}
        THEN [e EXCEPT !.buckets[b].records[SetMin(hits)] = <<key, pos>>]
        ELSE IF nhits # {}
        THEN [e EXCEPT !.buckets[b].next[1].records[SetMin(nhits)] = <<key, pos>>]
        ELSE e

\* Object identity of the buckets: the primary buckets the directory refers
\* to, renumbered in the order of their first slot; others are dropped.
eh_collect(e) ==
    LET live == dedupe(e.directory)
        ref(b) == SetMin({i \in 1..Len(live) : live[i] = b})
    IN  [e EXCEPT !.directory = <<>> \o [i \in 1..Len(e.directory) |-> ref(e.directory[i])],
                  !.buckets = <<>> \o [i \in 1..Len(live) |-> e.buckets[live[i]]]]

\* range_search(begin_key, end_key): the buckets in the order of their first
\* directory slot, each followed by its chained bucket
eh_range_search(e, begin_key, end_key) ==
    LET seen == dedupe(e.directory)
    IN  concat_all(<<>> \o [i \in 1..Len(seen) |->
            SelectSeq(chain_records(e.buckets[seen[i]]),
                      LAMBDA r : begin_key <= r[1] /\ r[1] <= end_key)])

\* ExtendibleHashingPersistence.save_hash: pickle writes D, bucketSize and the
\* buckets reachable from the directory
save_hash(e) == <<eh_collect(e)>>

\* ExtendibleHashing.load_from_file / load_hash: the fresh table takes D,
\* bucketSize and the directory of the file
load_hash(file) ==
    [NewExtendibleHashing(file[1].bucketSize) EXCEPT !.D = file[1].D,
                                                      !.directory = file[1].directory,
                                                      !.buckets = file[1].buckets]

-----------------------------------------------------------------------------
(* rtree.py (indexes/rtree.py keeps a size field equal to len(children) and *)
(* is otherwise the same tree). A node is the record of its is_leaf flag,   *)
(* its children (leaf entries <<minx, miny, maxx, maxy, payload>> or nodes) *)
(* and its bbox; a node object is named by its path, the list of 1-based    *)
(* child indexes that leads to it from the root. node_id and node_count are *)
(* written but never read and are left out. failed says that a call raised  *)
(* ValueError. Distances are kept as 4 * distance^2: every comparison of    *)
(* two distances in the source compares square roots of such numbers.       *)

Inf == 1000

\* the bbox of a node without children
EmptyBBox == <<Inf, Inf, -Inf, -Inf>>

RTreeNode(is_leaf) == [is_leaf |-> is_leaf, children |-> <<>>, bbox |-> EmptyBBox]

NewRTree(max_children) == [root |-> RTreeNode(TRUE), max_children |-> max_children, failed |-> FALSE]

SetMax(S) == CHOOSE x \in S : \A y \in S : x >= y

\* min / max over the four coordinates of a non-empty list of rectangles
bbox_union(boxes) ==
    <<SetMin({boxes[i][1] : i \in 1..Len(boxes)}), SetMin({boxes[i][2] : i \in 1..Len(boxes)}),
      SetMax({boxes[i][3] : i \in 1..Len(boxes)}), SetMax({boxes[i][4] : i \in 1..Len(boxes)})>>

\* RTreeNode.update_bbox: an internal node first updates all its children
RECURSIVE update_bbox(_)
update_bbox(node) ==
    IF node.is_leaf
    THEN [node EXCEPT !.bbox = IF node.children = <<>> THEN EmptyBBox ELSE bbox_union(node.children)]
    ELSE LET updated == <<>> \o [i \in 1..Len(node.children) |-> update_bbox(node.children[i])]
         IN  [node EXCEPT !.children = updated,
                          !.bbox = IF updated = <<>> THEN EmptyBBox
                                   ELSE bbox_union(<<>> \o [i \in 1..Len(updated) |-> updated[i].bbox])]

\* RTreeNode.area
area(bbox) == (bbox[3] - bbox[1]) * (bbox[4] - bbox[2])

\* RTreeNode.enlarged_area
enlarged_area(bbox, rect) ==
    LET new_minx == IF bbox[1] < rect[1] THEN bbox[1] ELSE rect[1]
        new_miny == IF bbox[2] < rect[2] THEN bbox[2] ELSE rect[2]
        new_maxx == IF bbox[3] > rect[3] THEN bbox[3] ELSE rect[3]
        new_maxy == IF bbox[4] > rect[4] THEN bbox[4] ELSE rect[4]
    IN  (new_maxx - new_minx) * (new_maxy - new_miny) - area(bbox)

\* RTreeNode.mindist_to_point for the point (point2[1] / 2, point2[2] / 2)
mindist_to_point(bbox, point2) ==
    LET dx == IF point2[1] < 2 * bbox[1] THEN 2 * bbox[1] - point2[1]
              ELSE IF point2[1] > 2 * bbox[3] THEN point2[1] - 2 * bbox[3] ELSE 0
        dy == IF point2[2] < 2 * bbox[2] THEN 2 * bbox[2] - point2[2]
              ELSE IF point2[2] > 2 * bbox[4] THEN point2[2] - 2 * bbox[4] ELSE 0
    IN  dx * dx + dy * dy

\* the order of the score tuples (enlarged_area, mindist) of _choose_leaf
score_less(a, b) == a[1] < b[1] \/ (a[1] = b[1] /\ a[2] < b[2])

\* _choose_leaf: the path from node to the leaf chosen; min() takes the first
\* child of least score
RECURSIVE choose_leaf(_, _)
choose_leaf(node, rect) ==
    IF node.is_leaf THEN <<>>
    ELSE LET rect_center2 == <<rect[1] + rect[3], rect[2] + rect[4]>>
             score == <<>> \o [i \in 1..Len(node.children) |->
                          <<enlarged_area(node.children[i].bbox, rect),
                            mindist_to_point(node.children[i].bbox, rect_center2)>>]
             best_child == SetMin({i \in 1..Len(node.children) :
                                      \A j \in 1..Len(node.children) : ~score_less(score[j], score[i])})
         IN  <<best_child>> \o choose_leaf(node.children[best_child], rect)

\* the node object at a path
RECURSIVE node_at(_, _)
node_at(node, path) ==
    IF path = <<>> THEN node ELSE node_at(node.children[Head(path)], Tail(path))

\* the tree under node after the object at path has become new
RECURSIVE with_node(_, _, _)
with_node(node, path, new) ==
    IF path = <<>> THEN new
    ELSE [node EXCEPT !.children[Head(path)] = with_node(@, Tail(path), new)]

\* _split_node (with _find_parent: the parent is the object one step up the path)
RECURSIVE split_node(_, _)
split_node(t, path) ==
    LET node == node_at(t.root, path)
        mid == Len(node.children) \div 2
        new_node == update_bbox([RTreeNode(node.is_leaf) EXCEPT
                                    !.children = SubSeq(node.children, mid + 1, Len(node.children))])
        old_node == update_bbox([node EXCEPT !.children = SubSeq(node.children, 1, mid)])
    IN  IF path = <<>>
        THEN [t EXCEPT !.root = update_bbox([RTreeNode(FALSE) EXCEPT !.children = <<old_node, new_node>>])]
        ELSE LET up == SubSeq(path, 1, Len(path) - 1)
                 parent == node_at(with_node(t.root, path, old_node), up)
                 parent1 == update_bbox([parent EXCEPT !.children = Append(@, new_node)])
                 t1 == [t EXCEPT !.root = with_node(@, up, parent1)]
             IN  IF Len(parent1.children) > t.max_children THEN split_node(t1, up) ELSE t1

\* insert_by_rect; min() of _choose_leaf raises ValueError on a node without children
insert_by_rect(t, rect, record) ==
    IF ~t.root.is_leaf /\ t.root.children = <<>>
    THEN [t EXCEPT !.failed = TRUE]
    ELSE LET path == choose_leaf(t.root, rect)
             leaf == node_at(t.root, path)
             leaf1 == update_bbox([leaf EXCEPT !.children =
                                      Append(@, <<rect[1], rect[2], rect[3], rect[4], record>>)])
             t1 == [t EXCEPT !.root = with_node(@, path, leaf1)]
         IN  IF Len(leaf1.children) > t.max_children THEN split_node(t1, path) ELSE t1

\* RTree.insert; nothing runs after a call has raised
rt_insert(t, rect, record) ==
    IF t.failed THEN t
    ELSE IF t.root.is_leaf /\ t.root.children = <<>>
    THEN [t EXCEPT !.root = update_bbox([@ EXCEPT !.children =
                                           <<(<<rect[1], rect[2], rect[3], rect[4], record>>)>>])]
    ELSE insert_by_rect(t, rect, record)

\* the overlap test of _search_recursive on a rectangle (entry or bbox)
overlaps(box, key) ==
    ~(box[3] < key[1] \/ box[1] > key[3] \/ box[4] < key[2] \/ box[2] > key[4])

\* _search_recursive: the payloads appended to results
RECURSIVE search_recursive(_, _)
search_recursive(node, key) ==
    IF node.is_leaf
    THEN LET hits == SelectSeq(node.children, LAMBDA child : overlaps(child, key))
         IN  <<>> \o [i \in 1..Len(hits) |-> hits[i][5]]
    ELSE concat_all(<<>> \o [i \in 1..Len(node.children) |->
                        IF overlaps(node.children[i].bbox, key)
                        THEN search_recursive(node.children[i], key) ELSE <<>>])

\* RTree.search
rt_search(t, key) == search_recursive(t.root, key)

\* the leaf entries under a node in the order _reinsert_subtree visits them
RECURSIVE leaf_entries(_)
leaf_entries(node) ==
    IF node.is_leaf THEN node.children
    ELSE concat_all(<<>> \o [i \in 1..Len(node.children) |-> leaf_entries(node.children[i])])

\* the underflow threshold of _delete_recursive
min_entries(max_children) == IF max_children \div 2 > 1 THEN max_children \div 2 ELSE 1

\* _delete_recursive: the node afterwards, the entries that the lists appended
\* to deleted_nodes hand to insert (in order), and the boolean returned
RECURSIVE rt_delete_recursive(_, _, _, _)
rt_delete_recursive(node, record_id, is_root, max_children) ==
    IF node.is_leaf
    THEN LET kept == SelectSeq(node.children, LAMBDA child : child[5] # record_id)
             node1 == update_bbox([node EXCEPT !.children = kept])
         IN  IF Len(kept) < Len(node.children)
             THEN IF Len(kept) < min_entries(max_children) /\ ~is_root
                  THEN [node |-> [node1 EXCEPT !.children = <<>>], deleted |-> kept, ret |-> TRUE]
                  ELSE [node |-> node1, deleted |-> <<>>, ret |-> TRUE]
             ELSE [node |-> node, deleted |-> <<>>, ret |-> FALSE]
    ELSE LET below == <<>> \o [i \in 1..Len(node.children) |->
                          rt_delete_recursive(node.children[i], record_id, FALSE, max_children)]
             nodes_to_remove == {i \in 1..Len(below) : below[i].ret /\ below[i].node.children = <<>>}
             stay == SelectSeq(<<>> \o [i \in 1..Len(below) |-> [i |-> i, node |-> below[i].node]],
                               LAMBDA c : c.i \notin nodes_to_remove)
             children == <<>> \o [i \in 1..Len(stay) |-> stay[i].node]
             deleted == concat_all(<<>> \o [i \in 1..Len(below) |-> below[i].deleted])
             node1 == update_bbox([node EXCEPT !.children = children])
         IN  IF children # <<>>
             THEN IF Len(children) < min_entries(max_children) /\ ~is_root
                  THEN [node |-> [node1 EXCEPT !.children = <<>>],
                        deleted |-> deleted \o leaf_entries(node1), ret |-> TRUE]
                  ELSE [node |-> node1, deleted |-> deleted, ret |-> nodes_to_remove # {}]
             ELSE [node |-> [node EXCEPT !.children = <<>>], deleted |-> deleted, ret |-> TRUE]

\* the reinsertion loop of delete
RECURSIVE insert_entries(_, _)
insert_entries(t, entries) ==
    IF entries = <<>> THEN t
    ELSE insert_entries(rt_insert(t, Head(entries), Head(entries)[5]), Tail(entries))

\* RTree.delete up to the end of the reinsertion loop
rt_delete_reinsert(t, key) ==
    LET r == rt_delete_recursive(t.root, key, TRUE, t.max_children)
    IN  insert_entries([t EXCEPT !.root = r.node], r.deleted)

\* RTree.delete
rt_delete(t, key) ==
    LET t1 == rt_delete_reinsert(t, key)
    IN  IF t1.failed THEN t1
        ELSE IF ~t1.root.is_leaf /\ Len(t1.root.children) = 1
        THEN [t1 EXCEPT !.root = @.children[1]]
        ELSE t1

\* list.sort(key=lambda x: x[0]) of (dist, payload) pairs: stable
RECURSIVE sort_by_dist(_)
sort_by_dist(results) ==
    IF results = <<>> THEN <<>>
    ELSE LET front == sort_by_dist(SubSeq(results, 1, Len(results) - 1))
             r == Last(results)
             i == FirstIndex(front, {j \in 1..Len(front) : front[j][1] > r[1]})
         IN  ListInsert(front, i, r)

\* the distance from the centre of a leaf entry to the point (point2 / 2)
center_dist(child, point2) ==
    (child[1] + child[3] - point2[1]) * (child[1] + child[3] - point2[1])
        + (child[2] + child[4] - point2[2]) * (child[2] + child[4] - point2[2])

\* recurse of range_search_k: results after the visit of node; knn_visit is
\* the loop over the children from the j-th of the list sorted by mindist
RECURSIVE knn_recurse(_, _, _, _), knn_visit(_, _, _, _, _, _)
knn_recurse(node, point2, k, results) ==
    IF node.is_leaf
    THEN sort_by_dist(results \o [i \in 1..Len(node.children) |->
                                     <<center_dist(node.children[i], point2), node.children[i][5]>>])
    ELSE LET mindists == sort_by_dist(<<>> \o [i \in 1..Len(node.children) |->
                                          <<mindist_to_point(node.children[i].bbox, point2), i>>])
         IN  knn_visit(node, mindists, 1, point2, k, results)

knn_visit(node, mindists, j, point2, k, results) ==
    IF j > Len(mindists) THEN results
    ELSE LET after == knn_recurse(node.children[mindists[j][2]], point2, k, results)
         IN  IF Len(after) >= k THEN after
             ELSE knn_visit(node, mindists, j + 1, point2, k, after)

\* range_search_k / _range_search_k: the payloads of results[:k]
range_search_k(t, point2, k) ==
    LET results == knn_recurse(t.root, point2, k, <<>>)
        first == SubSeq(results, 1, IF Len(results) < k THEN Len(results) ELSE k)
    IN  <<>> \o [i \in 1..Len(first) |-> first[i][2]]

-----------------------------------------------------------------------------
(* FileManager on its own: any sequence of add_record / remove_record / reopen *)

FMRecords == {Record(1, v) : v \in Vals}

TreeKeys == 1..MaxTreeKey
\* two slots tell an overwrite from a stale entry; slot 0 is the falsy one
TreeSlots == {0, 1}
Orders == 2..MaxOrder

FMIdle == fm = NewFileManager /\ fmLog = <<>> /\ fmLive = {}

TreeIdle == tree = NewBPlusTree(MaxOrder) /\ treeMap = [k \in TreeKeys |-> None]

NoCall == [op |-> "new", key |-> None, val |-> None, ok |-> TRUE]

DBIdle ==
    /\ db = NewDatabase("bplus", MaxOrder)
    /\ calls = 1
    /\ dbOp = NoCall
    /\ stored = [k \in Keys |-> None]

HashKeys == (-2)..MaxHashKey

NoMap == [k \in HashKeys |-> None]

EHIdle ==
    /\ eh = NewExtendibleHashing(MaxBucketSize)
    /\ ehMap = NoMap
    /\ ehPlain = TRUE

ISAMIdle ==
    /\ isam = NewISAMIndex
    /\ isamPositions = [k \in Keys |-> <<>>]
    /\ isamPromoted = {}

SeqIdle ==
    /\ seq = OpenSequentialIndex(<<>>, <<>>)
    /\ seqLatest = [k \in Keys |-> None]
    /\ seqInserts = [k \in Keys |-> 0]
    /\ seqRebuilt = FALSE

\* rtree.py: the default max_children
M == 4

\* the leaf entries given to the R-tree: points as degenerate rectangles
RTPoints == {<<x, y>> : x \in 0..MaxCoord, y \in 0..MaxCoord}

RTPayloads == 1..MaxPayload

RTEntries == {<<p[1], p[2], p[1], p[2], id>> : p \in RTPoints, id \in RTPayloads}

RTIdle ==
    /\ rt = NewRTree(M)
    /\ rtStored = [e \in RTEntries |-> 0]

-----------------------------------------------------------------------------
(* Table (core/models.py): the record layout of a schema.  A Field is its  *)
(* data_type ("int", "float" or "str") and its size; a format string is    *)
(* the list of its items, each a repeat count and a format character.      *)
Field(data_type, size) == [data_type |-> data_type, size |-> size]

_generate_format_string(fields) ==
    (<<>> \o [i \in 1..Len(fields) |->
                 IF fields[i].data_type = "int" THEN [count |-> 1, code |-> "i"]
                 ELSE IF fields[i].data_type = "float" THEN [count |-> 1, code |-> "f"]
                 ELSE [count |-> fields[i].size, code |-> "s"]])
        \o <<[count |-> 1, code |-> "i"]>>

\* a layout that starts every item where the last one ended
RECURSIVE calcsize_packed(_, _)
calcsize_packed(format, offset) ==
    IF format = <<>> THEN offset
    ELSE LET item == Head(format)
         IN  calcsize_packed(Tail(format),
                 offset + (IF item.code = "s" THEN item.count ELSE 4))

\* struct.calcsize in native mode with the items from `offset` on still to
\* lay out: an "i" or "f" item takes 4 bytes and starts at the next multiple
\* of 4, an "s" item takes count bytes and starts where the last item ended;
\* nothing is added after the last item.
RECURSIVE calcsize(_, _)
calcsize(format, offset) ==
    IF format = <<>> THEN offset
    ELSE LET item == Head(format)
             start == IF item.code = "s" THEN offset ELSE ((offset + 3) \div 4) * 4
         IN  calcsize(Tail(format),
                 start + (IF item.code = "s" THEN item.count ELSE 4))

_calculate_record_size(fields) == calcsize(_generate_format_string(fields), 0)

\* Table.__init__
NewTable(fields) ==
    [fields |-> fields,
     record_size |-> _calculate_record_size(fields),
     format_string |-> _generate_format_string(fields)]

\* FileManager._get_byte_offset for a FileManager opened on table t
_get_byte_offset(t, pos) == pos * t.record_size

\* a schema whose Table has not been constructed yet
Schema(fields) == [fields |-> fields, record_size |-> None, format_string |-> <<>>]

TableIdle == table = NewTable(<<Field("int", 0)>>)

IndexIdle == EHIdle /\ ISAMIdle /\ SeqIdle /\ RTIdle /\ TableIdle

InitFM ==
    /\ fm = NewFileManager
    /\ fmLog = <<>>
    /\ fmLive = {}
    /\ TreeIdle
    /\ DBIdle
    /\ IndexIdle

FMAdd(record) ==
    /\ Len(fmLog) < MaxOps
    /\ LET r == add_record(fm, record)
       IN  /\ fm' = r.fm
           /\ fmLog' = Append(fmLog, [op |-> "add", slot |-> r.pos, ok |-> TRUE])
           /\ fmLive' = fmLive \cup {r.pos}
    /\ UNCHANGED <<treeVars, dbVars, indexVars>>

FMRemove(pos) ==
    /\ Len(fmLog) < MaxOps
    /\ LET r == remove_record(fm, pos)
       IN  /\ fm' = r.fm
           /\ fmLog' = Append(fmLog, [op |-> "remove", slot |-> pos, ok |-> r.ok])
           /\ fmLive' = fmLive \ {pos}
    /\ UNCHANGED <<treeVars, dbVars, indexVars>>

FMOpen ==
    /\ Len(fmLog) < MaxOps
    /\ fm' = OpenFileManager(fm)
    /\ fmLog' = Append(fmLog, [op |-> "open", slot |-> None, ok |-> TRUE])
    /\ UNCHANGED <<fmLive, treeVars, dbVars, indexVars>>

NextFM ==
    \/ \E record \in FMRecords : FMAdd(record)
    \/ \E pos \in 0..fm.file_size : FMRemove(pos)
    \/ FMOpen

SpecFM == InitFM /\ [][NextFM]_vars

\* fmLog is n add_record calls on a new heap, then r remove_record calls on
\* distinct slots among them, then r add_record calls
ReusePattern(n, r) ==
    /\ r <= n
    /\ Len(fmLog) = n + 2 * r
    /\ \A i \in 1..n : fmLog[i].op = "add"
    /\ \A i \in (n + 1)..(n + r) : fmLog[i].op = "remove" /\ fmLog[i].slot < n
    /\ \A i, j \in (n + 1)..(n + r) : i # j => fmLog[i].slot # fmLog[j].slot
    /\ \A i \in (n + r + 1)..(n + 2 * r) : fmLog[i].op = "add"

\* C6: N records added to a new heap, R distinct live slots removed, R records
\* added: the R adds return the removed slots, last removed first, nothing is
\* appended and file_size is still N.
C6_FreeListReuse ==
    \A n \in 1..MaxOps, r \in 1..MaxOps :
        ReusePattern(n, r) =>
            /\ \A j \in 1..r : fmLog[n + r + j].slot = fmLog[n + r + 1 - j].slot
            /\ fm.file_size = n
            /\ Len(fm.data) = n

\* two slots removed, slot 0 first (so the second removed slot stores next = 0),
\* and both reused
C6_Witness ==
    /\ ReusePattern(2, 2)
    /\ fmLog[3].slot = 0
    /\ fmLog[4].slot = 1

\* C7: a slot's stored next is 0 exactly when the slot is live (returned by
\* add_record and not removed since), and get_all_records returns exactly the
\* records of the live slots.
C7_LiveMarker ==
    /\ \A p \in 0..(Len(fm.data) - 1) : (fm.data[p + 1].next = 0) <=> (p \in fmLive)
    /\ Len(get_all_records(fm)) = Cardinality(fmLive)

\* C8: remove_record on a slot that is on the free list (in the file, removed
\* and not reused) returns False and changes neither free_list_head, the header
\* file nor any stored record.
C8_RemoveFreeSlot ==
    [][(/\ Len(fmLog') = Len(fmLog) + 1
        /\ Last(fmLog').op = "remove"
        /\ Last(fmLog').slot < fm.file_size
        /\ Last(fmLog').slot \notin fmLive)
       => (Last(fmLog').ok = FALSE /\ fm' = fm)]_vars

RECURSIVE FreeChain(_, _, _)
\* the slots met by following next from slot p, at most fuel of them, with the
\* value the walk stopped at as the last element
FreeChain(f, p, fuel) ==
    IF p = -1 \/ fuel = 0 \/ read_record(f, p) = <<>> THEN <<p>>
    ELSE <<p>> \o FreeChain(f, read_record(f, p)[1].next, fuel - 1)

\* C31: add_record never returns a slot that holds a live record, and following
\* next from free_list_head visits each removed and not reused slot exactly
\* once and ends at -1 (the free list is acyclic and holds no live slot).
C31_NeverLiveSlot ==
    /\ [](LET chain == FreeChain(fm, fm.free_list_head, fm.file_size + 1)
              free == SubSeq(chain, 1, Len(chain) - 1)
          IN  /\ Last(chain) = -1
              /\ \A i, j \in 1..Len(free) : i # j => free[i] # free[j]
              /\ SeqToSet(free) = (0..(fm.file_size - 1)) \ fmLive)
    /\ [][(Len(fmLog') = Len(fmLog) + 1 /\ Last(fmLog').op = "add")
             => Last(fmLog').slot \notin fmLive]_vars

-----------------------------------------------------------------------------
(* BPlusTree on its own (no index file): any sequence of insert / update /  *)
(* delete, for every order                                                 *)

InitBPT ==
    /\ FMIdle
    /\ \E order \in Orders : tree = NewBPlusTree(order)
    /\ treeMap = [k \in TreeKeys |-> None]
    /\ DBIdle
    /\ IndexIdle

BPTInsert(key, pos) ==
    /\ tree' = insert(tree, key, pos)
    /\ treeMap' = [treeMap EXCEPT ![key] = pos]
    /\ UNCHANGED <<fmVars, dbVars, indexVars>>

BPTUpdate(key, pos) ==
    /\ tree' = update(tree, key, pos)
    /\ treeMap' = [treeMap EXCEPT ![key] = pos]
    /\ UNCHANGED <<fmVars, dbVars, indexVars>>

BPTDelete(key) ==
    /\ tree' = delete(tree, key)
    /\ treeMap' = [treeMap EXCEPT ![key] = None]
    /\ UNCHANGED <<fmVars, dbVars, indexVars>>

NextBPT ==
    \/ \E key \in TreeKeys, pos \in TreeSlots : BPTInsert(key, pos)
    \/ \E key \in TreeKeys, pos \in TreeSlots : BPTUpdate(key, pos)
    \/ \E key \in TreeKeys : BPTDelete(key)

SpecBPT == InitBPT /\ [][NextBPT]_vars

\* the leaves of the tree, found through children
TreeLeaves(t) == SelectSeq(preorder(t.nodes, t.root), LAMBDA n : t.nodes[n].is_leaf)

\* how many leaf entries of the tree carry the key
Entries(t, key) ==
    Cardinality({<<n, i>> \in SeqToSet(TreeLeaves(t)) \X (1..(MaxTreeKey + 1)) :
                    i <= Len(t.nodes[n].keys) /\ t.nodes[n].keys[i] = key})

\* number of levels on the leftmost path
RECURSIVE Depth(_, _)
Depth(nodes, n) == IF nodes[n].is_leaf THEN 1 ELSE 1 + Depth(nodes, nodes[n].children[1])

\* the separator keys held by the internal nodes
Separators(t) ==
    UNION {SeqToSet(t.nodes[n].keys) : n \in {m \in 1..Len(t.nodes) : ~t.nodes[m].is_leaf}}

\* C9: search(k) is the slot of the latest insert/update of k, None if k was
\* deleted since or never inserted, and a key has at most one entry.
C9_KeyToSlotMap ==
    \A k \in TreeKeys :
        /\ search(tree, k) = treeMap[k]
        /\ Entries(tree, k) = IF treeMap[k] = None THEN 0 ELSE 1

\* a tree of three levels in which a key was deleted and still separates two
\* subtrees, while another key holds a slot
C9_Witness ==
    /\ Depth(tree.nodes, tree.root) >= 3
    /\ \E k \in Separators(tree) : treeMap[k] = None
    /\ \E k \in TreeKeys : treeMap[k] = 0

\* the ascending list of (k, search(k)) for the stored keys in lo..hi
RECURSIVE ExpectedRange(_, _)
ExpectedRange(lo, hi) ==
    IF lo > hi THEN <<>>
    ELSE (IF treeMap[lo] # None THEN <<<<lo, search(tree, lo)>>>> ELSE <<>>) \o ExpectedRange(lo + 1, hi)

\* C10: for lo <= hi, range_search(lo, hi) is exactly the pairs (k, search(k)) of
\* the keys stored in lo..hi, in ascending key order, each once.
C10_RangeSearch ==
    \A lo \in TreeKeys, hi \in TreeKeys :
        lo <= hi => range_search(tree, lo, hi) = ExpectedRange(lo, hi)

\* a chain of at least three leaves, a deleted key left as separator, and a
\* range that returns entries of more than one leaf but not all entries
C10_Witness ==
    /\ Len(traverse_leaves(tree)) >= 3
    /\ \E k \in Separators(tree) : treeMap[k] = None
    /\ \E lo \in TreeKeys, hi \in TreeKeys :
          /\ lo <= hi
          /\ Len(range_search(tree, lo, hi)) > tree.order
          /\ Len(range_search(tree, lo, hi)) < Len(range_search(tree, 1, MaxTreeKey))

\* the leaves other than the root
NonRootLeaves(t) == {n \in SeqToSet(TreeLeaves(t)) : n # t.root}

\* C11: every leaf other than the root holds at least (order+1) div 2 keys (the
\* floor, which is the ceiling only for odd orders) and at most order keys.
C11_LeafOccupancy ==
    \A n \in NonRootLeaves(tree) :
        /\ Len(tree.nodes[n].keys) >= min_keys(tree.order)
        /\ Len(tree.nodes[n].keys) <= tree.order

\* C11 as stated: the lower bound is the ceiling of (order+1)/2
C11_AsStated ==
    \A n \in NonRootLeaves(tree) :
        /\ Len(tree.nodes[n].keys) >= (tree.order + 2) \div 2
        /\ Len(tree.nodes[n].keys) <= tree.order

\* an even order, three leaves or more after a delete that left its key as a
\* separator, one leaf at the minimum and one leaf full
C11_Witness ==
    /\ tree.order = 2
    /\ Len(traverse_leaves(tree)) >= 3
    /\ \E k \in Separators(tree) : treeMap[k] = None
    /\ \E n \in NonRootLeaves(tree) : Len(tree.nodes[n].keys) = min_keys(tree.order)
    /\ \E n \in NonRootLeaves(tree) : Len(tree.nodes[n].keys) = tree.order

\* the depths at which the leaves under node n lie, n being at depth d
RECURSIVE LeafDepths(_, _, _)
LeafDepths(nodes, n, d) ==
    IF nodes[n].is_leaf THEN {d}
    ELSE UNION {LeafDepths(nodes, nodes[n].children[j], d + 1) : j \in 1..Len(nodes[n].children)}

\* the keys of the leaves of a chain, one after the other
RECURSIVE ChainKeys(_, _)
ChainKeys(nodes, chain) ==
    IF chain = <<>> THEN <<>> ELSE nodes[Head(chain)].keys \o ChainKeys(nodes, Tail(chain))

\* C12: the next links from the leftmost leaf visit the leaves of the tree, each
\* once and in the order of the tree, the keys met are strictly ascending, and
\* all leaves lie at the same depth.
C12_LeafChain ==
    /\ traverse_leaves(tree) = TreeLeaves(tree)
    /\ \A i, j \in 1..Len(ChainKeys(tree.nodes, traverse_leaves(tree))) :
          i < j => ChainKeys(tree.nodes, traverse_leaves(tree))[i] < ChainKeys(tree.nodes, traverse_leaves(tree))[j]
    /\ Cardinality(LeafDepths(tree.nodes, tree.root, 1)) = 1

\* a tree of three levels whose chain has four leaves or more, after a delete
\* that left its key as a separator in the root
C12_Witness ==
    /\ Depth(tree.nodes, tree.root) >= 3
    /\ Len(traverse_leaves(tree)) >= 4
    /\ \E i \in 1..Len(tree.nodes[tree.root].keys) : treeMap[tree.nodes[tree.root].keys[i]] = None

-----------------------------------------------------------------------------
(* DatabaseManager: a table of any index type, any sequence of add_record,  *)
(* update_record, remove_record and save_all, and new managers opened on *)
(* the same files, with or without the index snapshot                       *)

InitDB ==
    /\ FMIdle
    /\ TreeIdle
    /\ IndexIdle
    /\ \E index_type \in IndexTypes, order \in Orders :
          /\ index_type # "bplus" => order = MaxOrder
          /\ db = NewDatabase(index_type, order)
    /\ calls = 1
    /\ dbOp = NoCall
    /\ stored = [k \in Keys |-> None]

\* room for one more record in the table's files
HasRoom(d) ==
    IF d.index_type = "sequential"
    THEN Len(d.index.main) + Len(d.index.aux) < MaxRecords
    ELSE d.file_manager.free_list_head # -1 \/ d.file_manager.file_size < MaxRecords

DBAdd(record) ==
    /\ db.open
    /\ HasRoom(db)
    /\ db' = db_add_record(db, record)
    /\ dbOp' = [op |-> "add", key |-> record.key, val |-> record.val, ok |-> TRUE]
    /\ stored' = [stored EXCEPT ![record.key] = record.val]
    /\ calls < MaxCalls
    /\ calls' = calls + 1
    /\ UNCHANGED <<fmVars, treeVars, indexVars>>

DBUpdate(key, new_values) ==
    /\ db.open
    /\ LET r == db_update_record(db, key, new_values)
       IN  /\ db' = r.db
           /\ dbOp' = [op |-> "update", key |-> key, val |-> None, ok |-> r.ok]
           /\ stored' = IF r.ok THEN [stored EXCEPT ![key] = new_values.val] ELSE stored
    /\ calls < MaxCalls
    /\ calls' = calls + 1
    /\ UNCHANGED <<fmVars, treeVars, indexVars>>

DBRemove(key) ==
    /\ db.open
    /\ LET r == db_remove_record(db, key)
       IN  /\ db' = r.db
           /\ dbOp' = [op |-> "remove", key |-> key, val |-> None, ok |-> r.ok]
           /\ stored' = IF r.ok THEN [stored EXCEPT ![key] = None] ELSE stored
    /\ calls < MaxCalls
    /\ calls' = calls + 1
    /\ UNCHANGED <<fmVars, treeVars, indexVars>>

DBSaveAll ==
    /\ db.open
    /\ db' = db_save_all(db)
    /\ dbOp' = [op |-> "save_all", key |-> None, val |-> None, ok |-> TRUE]
    /\ calls < MaxCalls
    /\ calls' = calls + 1
    /\ UNCHANGED <<stored, fmVars, treeVars, indexVars>>

\* the manager is dropped and a new one is constructed on the same files
DBOpen ==
    /\ db' = OpenDatabase(db)
    /\ dbOp' = [op |-> "open", key |-> None, val |-> None, ok |-> db'.open]
    /\ calls < MaxCalls
    /\ calls' = calls + 1
    /\ UNCHANGED <<stored, fmVars, treeVars, indexVars>>

\* the same, the .idx file having been removed in between
DBOpenWithoutSnapshot ==
    /\ db.index_type # "sequential"
    /\ db' = OpenDatabase([db EXCEPT !.index_file = <<>>])
    /\ dbOp' = [op |-> "open_without_snapshot", key |-> None, val |-> None, ok |-> db'.open]
    /\ calls < MaxCalls
    /\ calls' = calls + 1
    /\ UNCHANGED <<stored, fmVars, treeVars, indexVars>>

NextDB ==
    \/ \E record \in Records : DBAdd(record)
    \/ \E key \in Keys, new_values \in Records : DBUpdate(key, new_values)
    \/ \E key \in Keys : DBRemove(key)
    \/ DBSaveAll
    \/ DBOpen
    \/ DBOpenWithoutSnapshot

SpecDB == InitDB /\ [][NextDB]_vars

HeapBacked == db.index_type \in {"bplus", "isam"}

HasKey(records, key) == \E i \in 1..Len(records) : records[i].key = key

\* C1: with a B+ tree or ISAM index, once remove_record(k) has returned True,
\* get_record(k) is None and neither get_all() nor range_search(k, k) holds a
\* record with key k.
C1_RemoveThenAbsent ==
    (HeapBacked /\ dbOp.op = "remove" /\ dbOp.ok) =>
        /\ db_get_record(db, dbOp.key) = <<>>
        /\ ~HasKey(db_get_all(db), dbOp.key)
        /\ ~HasKey(db_range_search(db, dbOp.key, dbOp.key), dbOp.key)

\* C2: for every index type, get_all() never holds two records with the same
\* key, and add_record(r) for a key that get_record already finds leaves
\* get_record(r.key) returning r's values.
C2_Upsert ==
    [][db'.open =>
          /\ \A i, j \in 1..Len(db_get_all(db')) :
                i # j => db_get_all(db')[i].key # db_get_all(db')[j].key
          /\ (dbOp'.op = "add" /\ db_get_record(db, dbOp'.key) # <<>>) =>
                /\ db_get_record(db', dbOp'.key) # <<>>
                /\ db_get_record(db', dbOp'.key)[1].key = dbOp'.key
                /\ db_get_record(db', dbOp'.key)[1].val = dbOp'.val]_vars

\* the slots the index refers to: every leaf entry of the B+ tree, every base
\* and overflow position of the ISAM index
IndexSlots(d) ==
    IF d.index_type = "isam"
    THEN [i \in 1..Len(isam_range_search(d.index, 1, MaxKey)) |-> isam_range_search(d.index, 1, MaxKey)[i][2]]
    ELSE [i \in 1..Len(range_search(d.index, 1, MaxKey)) |-> range_search(d.index, 1, MaxKey)[i][2]]

\* C3: with a B+ tree or ISAM index, every live heap slot (stored next == 0) is
\* referenced by exactly one index entry, and every index entry references a
\* live heap slot.
C3_IndexHeapAgree ==
    (HeapBacked /\ db.open) =>
        /\ \A p \in 0..(Len(db.file_manager.data) - 1) :
              db.file_manager.data[p + 1].next = 0 =>
                  Cardinality({i \in 1..Len(IndexSlots(db)) : IndexSlots(db)[i] = p}) = 1
        /\ \A i \in 1..Len(IndexSlots(db)) :
              /\ read_record(db.file_manager, IndexSlots(db)[i]) # <<>>
              /\ read_record(db.file_manager, IndexSlots(db)[i])[1].next = 0

\* C4: for every index type, after add_record, update_record or remove_record
\* has returned, a new manager opened on the same files answers get_record
\* and range_search as the manager that made the call.
C4_Durable ==
    (db.open /\ dbOp.op \in {"add", "update", "remove"}) =>
        /\ OpenDatabase(db).open
        /\ \A k \in Keys : db_get_record(OpenDatabase(db), k) = db_get_record(db, k)
        /\ \A lo \in Keys, hi \in Keys :
              lo <= hi => db_range_search(OpenDatabase(db), lo, hi) = db_range_search(db, lo, hi)

\* C5: with a B+ tree or ISAM index, a manager opened while the index file is
\* absent rebuilds the index from the heap: get_record(k) is the stored record
\* for the keys added and not removed, and None for the others.
C5_RebuildFromHeap ==
    (HeapBacked /\ dbOp.op = "open_without_snapshot") =>
        /\ db.open
        /\ \A k \in Keys :
              IF stored[k] = None THEN db_get_record(db, k) = <<>>
              ELSE /\ db_get_record(db, k) # <<>>
                   /\ db_get_record(db, k)[1].val = stored[k]

-----------------------------------------------------------------------------
(* ExtendibleHashing on its own (no index file): any sequence of insert /    *)
(* delete / update, for every bucket size                                    *)

coreVars == <<fmVars, treeVars, dbVars>>

CoreIdle == FMIdle /\ TreeIdle /\ DBIdle

besidesEH == <<coreVars, isamVars, seqVars, rtVars, tableVars>>

InitEH ==
    /\ CoreIdle
    /\ RTIdle
    /\ ISAMIdle
    /\ SeqIdle
    /\ \E bucketSize \in 1..MaxBucketSize : eh = NewExtendibleHashing(bucketSize)
    /\ ehMap = NoMap
    /\ ehPlain = TRUE
    /\ TableIdle

\* every record of the structure, primary and chained buckets alike
RECURSIVE records_of(_, _)
records_of(e, b) ==
    IF b > Len(e.buckets) THEN <<>> ELSE chain_records(e.buckets[b]) \o records_of(e, b + 1)

\* insert(key, value), whether it returns or raises MemoryError
EHInsert(key, value) ==
    /\ ~eh.failed
    /\ Len(records_of(eh, 1)) < MaxEntries
    /\ eh' = eh_collect(eh_insert(eh, key, value))
    /\ ehPlain' = (ehPlain /\ eh_search(eh, key) = None)
    /\ ehMap' = IF ehPlain' THEN [ehMap EXCEPT ![key] = value] ELSE NoMap
    /\ UNCHANGED besidesEH

EHDelete(key) ==
    /\ ~eh.failed
    /\ eh' = eh_collect(eh_delete(eh, key))
    /\ ehMap' = IF ehPlain THEN [ehMap EXCEPT ![key] = None] ELSE NoMap
    /\ UNCHANGED <<ehPlain, besidesEH>>

EHUpdate(key, pos) ==
    /\ ~eh.failed
    /\ eh' = eh_collect(eh_update(eh, key, pos))
    /\ ehMap' = NoMap
    /\ ehPlain' = FALSE
    /\ UNCHANGED besidesEH

NextEH ==
    \/ \E key \in HashKeys, value \in Vals : EHInsert(key, value)
    \/ \E key \in HashKeys : EHDelete(key)
    \/ \E key \in HashKeys, pos \in Vals : EHUpdate(key, pos)

SpecEH == InitEH /\ [][NextEH]_vars

\* the callers that keep their keys distinct: insert only of a key that
\* search does not find, and delete
EHInsertNew(key, value) ==
    /\ eh_search(eh, key) = None
    /\ EHInsert(key, value)

NextEHDistinct ==
    \/ \E key \in HashKeys, value \in Vals : EHInsertNew(key, value)
    \/ \E key \in HashKeys : EHDelete(key)

SpecEHDistinct == InitEH /\ [][NextEHDistinct]_vars

\* the primary buckets followed by the chained buckets
AllBuckets(e) ==
    e.buckets \o [i \in 1..Cardinality({b \in 1..Len(e.buckets) : e.buckets[b].next # <<>>}) |->
                     e.buckets[CHOOSE b \in 1..Len(e.buckets) :
                                  /\ e.buckets[b].next # <<>>
                                  /\ Cardinality({c \in 1..b : e.buckets[c].next # <<>>}) = i].next[1]]

\* C13: the directory has 2^D slots, no bucket is deeper than D, and two slots
\* of one bucket agree on their low d bits, d being the bucket's local depth.
C13_DirectoryInvariant ==
    /\ Len(eh.directory) = Pow2(eh.D)
    /\ \A b \in 1..Len(AllBuckets(eh)) : AllBuckets(eh)[b].d <= eh.D
    /\ \A i, j \in 1..Len(eh.directory) :
          eh.directory[i] = eh.directory[j] =>
              (i - 1) % Pow2(eh.buckets[eh.directory[i]].d) = (j - 1) % Pow2(eh.buckets[eh.directory[i]].d)

C15_InsertRoundTrip ==
    ~eh.failed =>
        \A k \in HashKeys, v \in Vals :
            ~eh_insert(eh, k, v).failed => eh_search(eh_insert(eh, k, v), k) = v

\* C16: update(k, slot) leaves search(k) = slot, whether k was stored or not.
C16_UpdateOrInsert ==
    ~eh.failed =>
        \A k \in HashKeys, slot \in Vals : eh_search(eh_update(eh, k, slot), k) = slot

-----------------------------------------------------------------------------
(* ISAMIndex on its own (no snapshot file): any sequence of insert / delete  *)

\* three heap slots: a base position and two overflow positions in either order
IsamSlots == {0, 1, 2}

besidesISAM == <<coreVars, ehVars, seqVars, rtVars, tableVars>>

InitISAM ==
    /\ CoreIdle
    /\ RTIdle
    /\ EHIdle
    /\ ISAMIdle
    /\ SeqIdle
    /\ TableIdle

ISAMInsert(key, pos) ==
    /\ isam' = isam_insert(isam, key, pos)
    /\ isamPositions' = [isamPositions EXCEPT ![key] = IF pos \in SeqToSet(@) THEN @ ELSE Append(@, pos)]
    /\ UNCHANGED <<isamPromoted, besidesISAM>>

ISAMDelete(key) ==
    /\ isam' = isam_delete(isam, key).index
    /\ isamPositions' = [isamPositions EXCEPT ![key] = IF @ = <<>> THEN @ ELSE Tail(@)]
    /\ isamPromoted' = IF Len(isamPositions[key]) >= 2 THEN isamPromoted \cup {key}
                        ELSE isamPromoted \ {key}
    /\ UNCHANGED besidesISAM

NextISAM ==
    \/ \E key \in Keys, pos \in IsamSlots : ISAMInsert(key, pos)
    \/ \E key \in Keys : ISAMDelete(key)

SpecISAM == InitISAM /\ [][NextISAM]_vars

\* C17: insert(k, slot) for a key that has a base entry leaves idx_l3 as it is
\* and appends slot to the overflow list unless slot is the base or in the
\* list; get_all_positions(k) is the base followed by the overflow positions
\* in insertion order, and search(k) is the base.
C17_InsertDuplicate ==
    /\ \A k \in Keys :
          /\ get_all_positions(isam, k) = isamPositions[k]
          /\ isam_search(isam, k) = IF isamPositions[k] = <<>> THEN None ELSE isamPositions[k][1]
    /\ \A k \in Keys, slot \in IsamSlots :
          isamPositions[k] # <<>> =>
              /\ isam_insert(isam, k, slot).idx_l3 = isam.idx_l3
              /\ isam_search(isam_insert(isam, k, slot), k) = isamPositions[k][1]
              /\ overflow_get(isam_insert(isam, k, slot), k) =
                     IF slot \in SeqToSet(isamPositions[k]) THEN Tail(isamPositions[k])
                     ELSE Append(Tail(isamPositions[k]), slot)

\* a key with a base and two overflow positions that are not in slot order,
\* next to another key with a base entry
C17_Witness ==
    \E k \in Keys :
        /\ Len(get_all_positions(isam, k)) = 3
        /\ get_all_positions(isam, k)[2] > get_all_positions(isam, k)[3]
        /\ \E k2 \in Keys \ {k} : isam_search(isam, k2) # None

\* C18: delete(k) of a key with overflow promotes the first overflow position
\* to base and keeps the order of the rest; without overflow it removes the
\* base entry, so search(k) is None; it returns True in both cases, and False
\* with the index unchanged when k has no base entry.
C18_DeletePromotes ==
    \A k \in Keys :
        LET r == isam_delete(isam, k)
        IN  IF isam_search(isam, k) = None
            THEN ~r.ok /\ r.index = isam
            ELSE /\ r.ok
                 /\ get_all_positions(r.index, k) = Tail(get_all_positions(isam, k))
                 /\ isam_search(r.index, k) =
                        IF overflow_get(isam, k) = <<>> THEN None ELSE overflow_get(isam, k)[1]
                 /\ \A k2 \in Keys \ {k} : get_all_positions(r.index, k2) = get_all_positions(isam, k2)

\* a key whose base was promoted by delete and that still has an overflow
\* position, while another key was inserted and deleted down to nothing but
\* an empty overflow entry
C18_Witness ==
    /\ \E k \in isamPromoted : Len(get_all_positions(isam, k)) >= 2
    /\ \E k \in Keys : isam_search(isam, k) = None /\ k \in DOMAIN isam.overflow

-----------------------------------------------------------------------------
(* SequentialIndex on its own: any sequence of insert / delete / save_to_file *)

MaxSeqRecords == 6

besidesSeq == <<coreVars, ehVars, isamVars, rtVars, tableVars>>

InitSeq ==
    /\ CoreIdle
    /\ RTIdle
    /\ EHIdle
    /\ ISAMIdle
    /\ SeqIdle
    /\ TableIdle

\* insert(key, value): a Record of the values with next = 0, handed to add
SeqInsert(key, val) ==
    /\ Len(seq.main) + Len(seq.aux) < MaxSeqRecords
    /\ seq' = seq_add(seq, [key |-> key, val |-> val, next |-> 0])
    /\ seqLatest' = [seqLatest EXCEPT ![key] = val]
    /\ seqInserts' = [seqInserts EXCEPT ![key] = IF @ < 2 THEN @ + 1 ELSE @]
    /\ seqRebuilt' = (seq.aux_records_count + 1 >= K_THRESHOLD)
    /\ UNCHANGED besidesSeq

\* delete(key)
SeqDelete(key) ==
    /\ seq' = seq_remove(seq, key).index
    /\ seqLatest' = IF seq_remove(seq, key).ok THEN [seqLatest EXCEPT ![key] = None] ELSE seqLatest
    /\ seqRebuilt' = FALSE
    /\ UNCHANGED <<seqInserts, besidesSeq>>

SeqSaveToFile ==
    /\ seq' = seq_save_to_file(seq)
    /\ seqRebuilt' = (seq.aux_records_count > 0)
    /\ UNCHANGED <<seqLatest, seqInserts, besidesSeq>>

NextSeq ==
    \/ \E key \in Keys, val \in Vals : SeqInsert(key, val)
    \/ \E key \in Keys : SeqDelete(key)
    \/ SeqSaveToFile

SpecSeq == InitSeq /\ [][NextSeq]_vars

\* C19: immediately after every rebuild the main file is strictly sorted by
\* key and holds no tombstoned record, the aux file is empty and
\* aux_records_count is 0.
C19_AfterRebuild ==
    seqRebuilt =>
        /\ \A i \in 1..(Len(seq.main) - 1) : seq.main[i].key < seq.main[i + 1].key
        /\ \A i \in 1..Len(seq.main) : seq.main[i].next = 0
        /\ seq.aux = <<>>
        /\ seq.aux_records_count = 0

\* C20: when a key was inserted more than once, search(k) returns the record
\* inserted last for k, while the records are in aux and after a rebuild.
C20_UpsertByReplacement ==
    \A k \in Keys :
        (seqInserts[k] = 2 /\ seqLatest[k] # None) =>
            /\ search_record(seq, k) # <<>>
            /\ search_record(seq, k)[1].key = k
            /\ search_record(seq, k)[1].val = seqLatest[k]

\* the keys of the live records of the two files
LiveKeys(q) ==
    {q.main[i].key : i \in {j \in 1..Len(q.main) : q.main[j].next = 0}}
        \cup {q.aux[i].key : i \in {j \in 1..Len(q.aux) : q.aux[j].next = 0}}

\* C21: after delete(k), search(k) returns None, and delete(k) returns True
\* whenever a live record with key k existed in main or aux.
C21_DeleteThenSearch ==
    \A k \in Keys :
        /\ search_record(seq_remove(seq, k).index, k) = <<>>
        /\ k \in LiveKeys(seq) => seq_remove(seq, k).ok

\* the live records of a file with begin_key <= key <= end_key, in file order
LiveInRange(file, begin_key, end_key) ==
    SelectSeq(file, LAMBDA r : r.next = 0 /\ begin_key <= r.key /\ r.key <= end_key)

\* C22: rangeSearch(lo, hi) with lo <= hi returns exactly the live records of
\* main and aux with lo <= key <= hi, and a key is in the result if and only
\* if search(key) is not None.
C22_RangeContainment ==
    \A lo \in Keys, hi \in Keys :
        lo <= hi =>
            /\ rangeSearch(seq, lo, hi) = LiveInRange(seq.main, lo, hi) \o LiveInRange(seq.aux, lo, hi)
            /\ \A k \in lo..hi :
                  (\E i \in 1..Len(rangeSearch(seq, lo, hi)) : rangeSearch(seq, lo, hi)[i].key = k)
                      <=> search_record(seq, k) # <<>>

\* C23: update_record(k, new_values) on a sequential table returns True when
\* a live record with key k exists in main or aux, and get_record(k) returns
\* new_values afterwards; when k is absent or tombstoned it returns False and
\* changes no file.
C23_SequentialUpdate ==
    (db.open /\ db.index_type = "sequential") =>
        \A k \in Keys, v \in Vals :
            LET r == db_update_record(db, k, Record(k, v))
            IN  IF k \in LiveKeys(db.index)
                THEN /\ r.ok
                     /\ db_get_record(r.db, k) # <<>>
                     /\ db_get_record(r.db, k)[1].key = k
                     /\ db_get_record(r.db, k)[1].val = v
                ELSE ~r.ok /\ r.db = db

-----------------------------------------------------------------------------
(* RTree on its own: any sequence of insert / delete, for every max_children *)

besidesRT == <<coreVars, ehVars, isamVars, seqVars, tableVars>>

InitRT ==
    /\ CoreIdle
    /\ EHIdle
    /\ ISAMIdle
    /\ SeqIdle
    /\ \E max_children \in 2..MaxChildren : rt = NewRTree(max_children)
    /\ rtStored = [e \in RTEntries |-> 0]
    /\ TableIdle

\* insert(rect, record), whether it returns or raises ValueError
RTInsert(entry) ==
    /\ ~rt.failed
    /\ Len(leaf_entries(rt.root)) < MaxRTEntries
    /\ rt' = rt_insert(rt, entry, entry[5])
    /\ rtStored' = IF rt'.failed THEN rtStored ELSE [rtStored EXCEPT ![entry] = @ + 1]
    /\ UNCHANGED besidesRT

\* delete(key), whether it returns or raises ValueError
RTDelete(key) ==
    /\ ~rt.failed
    /\ rt' = rt_delete(rt, key)
    /\ rtStored' = [e \in RTEntries |-> IF e[5] = key THEN 0 ELSE rtStored[e]]
    /\ UNCHANGED besidesRT

NextRT ==
    \/ \E entry \in RTEntries : RTInsert(entry)
    \/ \E key \in RTPayloads : RTDelete(key)

SpecRT == InitRT /\ [][NextRT]_vars

\* the bounding boxes asked for: every rectangle of the grid
RTQueries ==
    {q \in (0..MaxCoord) \X (0..MaxCoord) \X (0..MaxCoord) \X (0..MaxCoord) : q[1] <= q[3] /\ q[2] <= q[4]}

\* how many of the stored entries in S there are
RECURSIVE stored_count(_, _)
stored_count(counts, S) ==
    IF S = {} THEN 0
    ELSE LET e == CHOOSE x \in S : TRUE
         IN  counts[e] + stored_count(counts, S \ {e})

\* how often x occurs in the list s
CountIn(s, x) == Cardinality({i \in 1..Len(s) : s[i] = x})

\* C24: search(bbox) returns exactly the payloads of the stored entries (those
\* inserted and not deleted since) whose rectangle overlaps bbox.
C24_SearchOverlap ==
    ~rt.failed =>
        \A key \in RTQueries, id \in RTPayloads :
            CountIn(rt_search(rt, key), id) =
                stored_count(rtStored, {e \in RTEntries : e[5] = id /\ overlaps(e, key)})

\* every node with children has the bbox that encloses exactly its children
RECURSIVE BBoxExact(_)
BBoxExact(node) ==
    /\ node.children # <<>> =>
          node.bbox = IF node.is_leaf THEN bbox_union(node.children)
                      ELSE bbox_union([i \in 1..Len(node.children) |-> node.children[i].bbox])
    /\ ~node.is_leaf => \A i \in 1..Len(node.children) : BBoxExact(node.children[i])

\* C25: after every insert and delete that returns, every internal node's bbox
\* is the union of its children's bboxes and every leaf's bbox is the union of
\* its entries' rectangles.
C25_BBoxInvariant == ~rt.failed => BBoxExact(rt.root)

\* every node below the root has between low and high children
RECURSIVE FanOut(_, _, _, _)
FanOut(node, is_root, low, high) ==
    /\ Len(node.children) <= high
    /\ ~is_root => Len(node.children) >= low
    /\ ~node.is_leaf => \A i \in 1..Len(node.children) : FanOut(node.children[i], FALSE, low, high)

\* C26: every node has at most M children or entries and every node other
\* than the root at least ceil(M / 2), after every insert and delete.
C26_FanOut == FanOut(rt.root, TRUE, (rt.max_children + 1) \div 2, rt.max_children)

\* C27: delete(id) returns without raising, removes every entry with payload
\* id and no other (each other entry is in exactly one leaf afterwards), and
\* an internal root that the removal and reinsertion leave with a single child
\* is replaced by that child.
C27_DeleteKeepsOthers ==
    ~rt.failed =>
        \A id \in RTPayloads :
            LET t == rt_delete(rt, id)
                reinserted == rt_delete_reinsert(rt, id)
            IN  /\ ~t.failed
                /\ \A e \in RTEntries :
                      CountIn(leaf_entries(t.root), e) =
                          IF e[5] = id THEN 0 ELSE CountIn(leaf_entries(rt.root), e)
                /\ (~reinserted.root.is_leaf /\ Len(reinserted.root.children) = 1)
                       => t.root = reinserted.root.children[1]

\* the distances of a list of (dist, payload) pairs
Distances(results) == [i \in 1..Len(results) |-> results[i][1]]

\* C28: the k-nearest-neighbour query returns the k stored entries of least
\* distance to the point (all when fewer are stored), in ascending order of
\* distance.
C28_NearestNeighbours ==
    ~rt.failed =>
        \A point \in RTPoints, k \in 1..MaxNeighbours :
            LET point2 == <<2 * point[1], 2 * point[2]>>
                found == knn_recurse(rt.root, point2, k, <<>>)
                all == sort_by_dist([i \in 1..Len(leaf_entries(rt.root)) |->
                                        <<center_dist(leaf_entries(rt.root)[i], point2),
                                          leaf_entries(rt.root)[i][5]>>])
                n == IF Len(all) < k THEN Len(all) ELSE k
            IN  /\ Len(range_search_k(rt, point2, k)) = n
                /\ Distances(SubSeq(found, 1, n)) = Distances(SubSeq(all, 1, n))

\* C32: the root is never an internal node without children; once every
\* stored entry is deleted the root is an empty leaf, and an insert that
\* follows succeeds and is found by search.
C32_UsableWhenEmptied ==
    ~rt.failed =>
        /\ ~(~rt.root.is_leaf /\ rt.root.children = <<>>)
        /\ leaf_entries(rt.root) = <<>> =>
              /\ rt.root.is_leaf
              /\ \A entry \in RTEntries :
                    LET t == rt_insert(rt, entry, entry[5])
                    IN  ~t.failed /\ CountIn(rt_search(t, entry), entry[5]) = 1

-----------------------------------------------------------------------------
(* One index object and its snapshot: a B+ tree, an ISAM index or an        *)
(* extendible hash (with distinct keys) under any sequence of its own       *)
(* operations. The three classes share no state, so a behaviour works on    *)
(* one of them while the other two stay as constructed.                     *)

InitSnapshot == InitBPT

SnapshotBPT == ISAMIdle /\ EHIdle /\ NextBPT

\* two slots tell a base position from an overflow position, and one record
\* from another
SnapshotISAM ==
    /\ TreeIdle /\ EHIdle
    /\ \/ \E key \in Keys, pos \in TreeSlots : ISAMInsert(key, pos)
       \/ \E key \in Keys : ISAMDelete(key)

SnapshotEH ==
    /\ TreeIdle /\ ISAMIdle
    /\ \/ \E key \in HashKeys, value \in TreeSlots : EHInsertNew(key, value)
       \/ \E key \in HashKeys : EHDelete(key)

NextSnapshot == SnapshotBPT \/ SnapshotISAM \/ SnapshotEH

SpecSnapshot == InitSnapshot /\ [][NextSnapshot]_vars

C30_IdempotentDelete ==
    /\ \A key \in TreeKeys :
          search(tree, key) = None =>
              /\ delete(tree, key) = tree
              /\ save_tree(delete(tree, key)) = save_tree(tree)
              /\ \A present \in TreeKeys :
                    search(tree, present) # None =>
                        delete_result(tree, key) # delete_result(tree, present)
    /\ \A key \in Keys :
          isam_search(isam, key) = None =>
              isam_delete(isam, key) = [index |-> isam, ok |-> FALSE]
    /\ ~eh.failed =>
          \A key \in HashKeys :
              eh_search(eh, key) = None =>
                  /\ eh_collect(eh_delete(eh, key)) = eh
                  /\ eh_delete_message(eh, key) = "no encontrado"
    /\ \A key \in Keys :
          key \notin LiveKeys(seq) => seq_remove(seq, key) = [index |-> seq, ok |-> FALSE]

-----------------------------------------------------------------------------
(* BPlusTree of order MaxOrder on its own, with enough keys for an internal *)
(* node below the root to hold two keys: any sequence of insert / delete.   *)
(* The slot is 0 throughout; treeMap is not kept.                           *)

DeepKeys == 1..MaxDeepKey

InitBPTDeep == CoreIdle /\ IndexIdle

BPTDeepInsert(key) ==
    /\ tree' = insert(tree, key, 0)
    /\ UNCHANGED <<treeMap, fmVars, dbVars, indexVars>>

BPTDeepDelete(key) ==
    /\ tree' = delete(tree, key)
    /\ UNCHANGED <<treeMap, fmVars, dbVars, indexVars>>

NextBPTDeep ==
    \/ \E key \in DeepKeys : BPTDeepInsert(key)
    \/ \E key \in DeepKeys : BPTDeepDelete(key)

SpecBPTDeep == InitBPTDeep /\ [][NextBPTDeep]_vars

\* C35: no node of the tree, leaf or internal, holds more than order keys, and
\* every internal node has exactly len(keys) + 1 children.
C35_NodeCapacity ==
    \A n \in SeqToSet(preorder(tree.nodes, tree.root)) :
        /\ Len(tree.nodes[n].keys) <= tree.order
        /\ ~tree.nodes[n].is_leaf => Len(tree.nodes[n].children) = Len(tree.nodes[n].keys) + 1

-----------------------------------------------------------------------------
(* The two files of a SequentialIndex under any sequence of insert / delete  *)
(* / save_to_file; the records of what was inserted are not kept.           *)

InitSeqFiles == InitSeq

\* insert(key, value) while the files hold fewer than room records
SeqFilesInsert(key, val, room) ==
    /\ Len(seq.main) + Len(seq.aux) < room
    /\ seq' = seq_add(seq, [key |-> key, val |-> val, next |-> 0])
    /\ UNCHANGED <<seqLatest, seqInserts, seqRebuilt, besidesSeq>>

SeqFilesDelete(key) ==
    /\ seq' = seq_remove(seq, key).index
    /\ UNCHANGED <<seqLatest, seqInserts, seqRebuilt, besidesSeq>>

SeqFilesSave ==
    /\ seq' = seq_save_to_file(seq)
    /\ UNCHANGED <<seqLatest, seqInserts, seqRebuilt, besidesSeq>>

\* the merge: records of every key and payload, few enough records for every
\* arrangement of live and tombstoned records in the two files
NextSeqFiles ==
    \/ \E key \in Keys, val \in Vals : SeqFilesInsert(key, val, MaxMergeRecords)
    \/ \E key \in Keys : SeqFilesDelete(key)
    \/ SeqFilesSave

SpecSeqFiles == InitSeqFiles /\ [][NextSeqFiles]_vars

\* the counter: the payload plays no part in it, and the files hold enough
\* records for inserts that reach K after a rebuild
NextSeqCount ==
    \/ \E key \in Keys : SeqFilesInsert(key, 1, MaxSeqRecords)
    \/ \E key \in Keys : SeqFilesDelete(key)
    \/ SeqFilesSave

SpecSeqCount == InitSeqFiles /\ [][NextSeqCount]_vars

\* the records of a file that are not tombstoned, in file order
LiveRecords(file) == SelectSeq(file, LAMBDA r : r.next = 0)

\* for the keys from k up, in ascending order: the records of main with the
\* key, then the records of aux with the key, each in file order
RECURSIVE MergedByKey(_, _, _)
MergedByKey(main, aux, k) ==
    IF k > MaxKey THEN <<>>
    ELSE SelectSeq(main, LAMBDA r : r.key = k) \o SelectSeq(aux, LAMBDA r : r.key = k)
            \o MergedByKey(main, aux, k + 1)

\* the files a rebuild can meet: those of the current state (save_to_file) and
\* those with one more record in aux (insert)
RebuildInputs ==
    {seq} \cup {[seq EXCEPT !.aux = Append(@, [key |-> key, val |-> val, next |-> 0]),
                            !.aux_records_count = @ + 1] : key \in Keys, val \in Vals}

\* C37: main after a rebuild is exactly the live records of main and the live
\* records of aux before it, merged by key, the record of main before the
\* record of aux when the keys are equal; no tombstoned record of either file
\* is in it, and aux is empty.
C37_RebuildMerge ==
    \A q \in RebuildInputs :
        rebuild(q) = [main |-> MergedByKey(LiveRecords(q.main), LiveRecords(q.aux), 1),
                      aux |-> <<>>,
                      aux_records_count |-> 0]

\* a rebuild that meets a tombstoned record in main and one in aux, and a
\* live record of aux with the key of a live record of main and another
\* payload
C37_Witness ==
    \E q \in RebuildInputs :
        /\ \E i \in 1..Len(q.main) : q.main[i].next # 0
        /\ \E i \in 1..Len(q.aux) : q.aux[i].next # 0
        /\ \E i \in 1..Len(q.main), j \in 1..Len(q.aux) :
              /\ q.main[i].next = 0 /\ q.aux[j].next = 0
              /\ q.main[i].key = q.aux[j].key
              /\ q.main[i].val # q.aux[j].val

-----------------------------------------------------------------------------
(* Further properties of DatabaseManager under SpecDB                        *)

\* the entries <<key, slot>> of the index, in key order
IndexEntries(d) ==
    IF d.index_type = "isam" THEN isam_range_search(d.index, 1, MaxKey)
    ELSE range_search(d.index, 1, MaxKey)

\* C34: with a B+ tree or ISAM index, the heap record at the slot of every
\* index entry (k, slot) has key k, and get_record(k) never returns a record
\* of another key.
C34_EntryKeyIsRecordKey ==
    (HeapBacked /\ db.open) =>
        /\ \A i \in 1..Len(IndexEntries(db)) :
              LET record == read_record(db.file_manager, IndexEntries(db)[i][2])
              IN  record # <<>> /\ record[1].key = IndexEntries(db)[i][1]
        /\ \A k \in Keys :
              db_get_record(db, k) # <<>> => db_get_record(db, k)[1].key = k

-----------------------------------------------------------------------------
(* Further properties of ExtendibleHashing under any sequence of insert /    *)
(* delete / update                                                           *)

\* C33: insert(key, value) returns for every key and value, keys stored
\* 2 * bucketSize times or more included, with one more record <<key, value>>
\* stored and a directory of 2^D slots.
C33_InsertTerminates ==
    ~eh.failed =>
        \A key \in HashKeys, value \in Vals :
            LET e == eh_insert(eh, key, value)
            IN  /\ ~e.failed
                /\ CountIn(records_of(e, 1), <<key, value>>) = CountIn(records_of(eh, 1), <<key, value>>) + 1
                /\ Len(e.directory) = Pow2(e.D)

\* C36: every primary and chained bucket holds at most bucketSize records, a
\* chained bucket has no chained bucket of its own and is not empty, and a
\* bucket that has a chained bucket has local depth D.
C36_BucketShape ==
    \A b \in SeqToSet(eh.directory) :
        LET bucket == eh.buckets[b]
        IN  /\ Len(bucket.records) <= eh.bucketSize
            /\ bucket.next # <<>> =>
                  /\ Len(bucket.next[1].records) <= eh.bucketSize
                  /\ bucket.next[1].records # <<>>
                  /\ bucket.next[1].next = <<>>
                  /\ bucket.d = eh.D

-----------------------------------------------------------------------------
(* Table on its own: a schema is chosen, then Table.__init__ lays it out.   *)
FieldKinds ==
    {Field("int", 0), Field("float", 0)} \cup {Field("str", n) : n \in 1..MaxStrSize}

Schemas == UNION {[1..n -> FieldKinds] : n \in 1..MaxFields}

tableRest == <<coreVars, ehVars, isamVars, seqVars, rtVars>>

InitTable ==
    /\ CoreIdle /\ EHIdle /\ ISAMIdle /\ SeqIdle /\ RTIdle
    /\ \E fields \in Schemas : table = Schema(<<>> \o fields)

TableInit ==
    /\ table.record_size = None
    /\ table' = NewTable(table.fields)
    /\ UNCHANGED tableRest

NextTable == TableInit

SpecTable == InitTable /\ [][NextTable]_vars

\* size in bytes of field i as the schema declares it
FieldSize(fields, i) == IF fields[i].data_type = "str" THEN fields[i].size ELSE 4

RECURSIVE SizeOfFirst(_, _)
SizeOfFirst(fields, n) ==
    IF n = 0 THEN 0 ELSE SizeOfFirst(fields, n - 1) + FieldSize(fields, n)

\* every int field, every float field and the next link is preceded by
\* fields whose sizes add up to a multiple of 4
WordAligned(fields) ==
    /\ SizeOfFirst(fields, Len(fields)) % 4 = 0
    /\ \A i \in 1..Len(fields) :
           fields[i].data_type # "str" => SizeOfFirst(fields, i - 1) % 4 = 0

\* C39 as stated: record_size is the sum of the field sizes plus 4 for the
\* next link, for every schema, so slot i starts at byte
\* i * (sum of the field sizes + 4).
C39_PackedSize ==
    table.record_size # None =>
        /\ table.record_size = SizeOfFirst(table.fields, Len(table.fields)) + 4
        /\ \A pos \in 0..MaxRecords :
               _get_byte_offset(table, pos) =
                   pos * (SizeOfFirst(table.fields, Len(table.fields)) + 4)

\* C39, amended: record_size is a multiple of 4 that is at least the sum of
\* the field sizes plus 4 and exceeds it by less than 4 bytes for each int
\* field, float field and next link; it is exactly that sum when every int
\* field, every float field and the next link is preceded by fields whose
\* sizes add up to a multiple of 4, and larger otherwise.  Slot i starts at
\* byte i * record_size.
C39_AlignedSize ==
    table.record_size # None =>
        LET fields == table.fields
            packed == SizeOfFirst(fields, Len(fields)) + 4
            words == 1 + Cardinality({i \in 1..Len(fields) : fields[i].data_type # "str"})
        IN  /\ table.record_size % 4 = 0
            /\ table.record_size >= packed
            /\ table.record_size <= packed + 3 * words
            /\ (table.record_size = packed) <=> WordAligned(fields)
            /\ \A pos \in 0..MaxRecords :
                   _get_byte_offset(table, pos) = pos * table.record_size

C39_Witness ==
    /\ table.record_size # None
    /\ ~WordAligned(table.fields)
    /\ \E i \in 1..Len(table.fields) : table.fields[i].data_type = "str"
    /\ \E i \in 1..Len(table.fields) : table.fields[i].data_type = "float"
    /\ table.record_size = SizeOfFirst(table.fields, Len(table.fields)) + 4 + 5
    /\ _get_byte_offset(table, 2) = 2 * table.record_size

====
